---- MODULE Spec2Model ----
(***************************************************************************)
(* A model of the TRMNL PostHog insight viewer: the insight normalizer     *)
(* (posthog.js), the markup composer and chart renderers (markup.js), the  *)
(* installation store (db.js) and the request handlers (index.js).         *)
(*                                                                         *)
(* JavaScript values are tagged records, so that a payload field of any    *)
(* JSON type can be carried through the code's own coercions.  Numbers are *)
(* integers (plus NaN); strings are TLA+ strings, i.e. sequences of        *)
(* characters.  Six non-ASCII characters of the source are written with    *)
(* one ASCII stand-in each (see EMDASH .. MIDDOT).                         *)
(***************************************************************************)
EXTENDS Integers, Sequences, FiniteSets, TLC

VARIABLES
  pc,        \* pipeline position: "idle", "decoded", "normalized", "rendered", ...
  payload,   \* the decoded JSON blob handed to the normalizer (None before a fetch)
  payload0,  \* the blob as it was decoded, before any normalization ran on it
  record,    \* result of the first normalization: [raised, rec]
  record2,   \* result of normalizing the same blob object again
  out,       \* result of rendering the record: [raised, chart, frags]
  out2,      \* result of rendering the same record again
  installations,  \* the installations table: its rows in insertion order
  reqs,           \* the /markup handler invocations: waiting for a poll, or at the await
  sent,           \* the latest /markup response, with the blob it was built from
  uninstalled,    \* the latest /uninstall answer, with the id the handler identified
  operand,        \* the value a formatter or the axis scaler is called with
  computed        \* what each of them returned for it (None before its call)

pipe == <<pc, payload, payload0, record, record2, out, out2>>

srv == <<installations, reqs, sent, uninstalled>>

calc == <<operand, computed>>

vars == <<pipe, srv, calc>>

----------------------------------------------------------------------------
(* JavaScript values                                                       *)

Undef == [t |-> "undefined"]

Null == [t |-> "null"]

NaN == [t |-> "NaN"]

Num(n) == [t |-> "number", n |-> n]

Str(s) == [t |-> "string", s |-> s]

Arr(a) == [t |-> "array", a |-> a]

Obj(o) == [t |-> "object", o |-> o]

None == [t |-> "none"]

\* One ASCII stand-in per non-ASCII character of the source.
EMDASH == "~"

ARROW == "^"

ELLIPSIS == "_"

BULLET == "+"

ENDASH == "-"

MIDDOT == "."

IsNullish(v) == v.t \in {"undefined", "null"}

IsArray(v) == v.t = "array"

IsString(v) == v.t = "string"

\* ToBoolean
Truthy(v) ==
  CASE v.t = "undefined" -> FALSE
    [] v.t = "null"      -> FALSE
    [] v.t = "NaN"       -> FALSE
    [] v.t = "number"    -> v.n # 0
    [] v.t = "string"    -> v.s # ""
    [] OTHER             -> TRUE

\* a || b
Or(a, b) == IF Truthy(a) THEN a ELSE b

\* a ?? b
Coalesce(a, b) == IF IsNullish(a) THEN b ELSE a

\* v.k for a v that is not undefined/null (reading a property of those throws)
Get(v, k) ==
  IF v.t = "object" /\ k \in DOMAIN v.o THEN v.o[k] ELSE Undef

\* v?.k
OptGet(v, k) == IF IsNullish(v) THEN Undef ELSE Get(v, k)

\* v[i] with a 0-based index i, for a v that is not undefined/null
Index(v, i) ==
  CASE v.t = "array"  -> IF i + 1 \in DOMAIN v.a THEN v.a[i + 1] ELSE Undef
    [] v.t = "string" -> IF i + 1 \in 1..Len(v.s) THEN Str(SubSeq(v.s, i + 1, i + 1)) ELSE Undef
    [] OTHER          -> Undef

Digits == <<"0", "1", "2", "3", "4", "5", "6", "7", "8", "9">>

IsDigit(c) == \E i \in 1..10 : Digits[i] = c

DigitVal(c) == CHOOSE i \in 0..9 : Digits[i + 1] = c

RECURSIVE AllDigits(_)
AllDigits(s) == s = "" \/ (IsDigit(SubSeq(s, 1, 1)) /\ AllDigits(SubSeq(s, 2, Len(s))))

RECURSIVE DigitsVal(_, _)
DigitsVal(s, acc) ==
  IF s = "" THEN acc
  ELSE DigitsVal(SubSeq(s, 2, Len(s)), acc * 10 + DigitVal(SubSeq(s, 1, 1)))

RECURSIVE Join(_, _)
RECURSIVE ToStringJS(_)
\* String(v) and template-literal interpolation
ToStringJS(v) ==
  CASE v.t = "undefined" -> "undefined"
    [] v.t = "null"      -> "null"
    [] v.t = "NaN"       -> "NaN"
    [] v.t = "number"    -> ToString(v.n)
    [] v.t = "string"    -> v.s
    [] v.t = "array"     -> Join(v.a, 1)
    [] OTHER             -> "[object Object]"

\* Array.prototype.join(","): null and undefined elements print as ""
Join(a, i) ==
  IF i > Len(a) THEN ""
  ELSE (IF IsNullish(a[i]) THEN "" ELSE ToStringJS(a[i]))
       \o (IF i < Len(a) THEN "," ELSE "") \o Join(a, i + 1)

\* Number(v): a JS number, here Num(n) or NaN
ToNumber(v) ==
  CASE v.t = "undefined" -> NaN
    [] v.t = "null"      -> Num(0)
    [] v.t = "NaN"       -> NaN
    [] v.t = "number"    -> v
    [] v.t = "string"    -> IF AllDigits(v.s) THEN Num(DigitsVal(v.s, 0)) ELSE NaN
    [] v.t = "array"     -> LET s == Join(v.a, 1)
                            IN IF AllDigits(s) THEN Num(DigitsVal(s, 0)) ELSE NaN
    [] OTHER             -> NaN

\* a + b: concatenation when either operand is (or prints as) a string
Plus(a, b) ==
  IF a.t \in {"string", "array", "object"} \/ b.t \in {"string", "array", "object"}
  THEN Str(ToStringJS(a) \o ToStringJS(b))
  ELSE LET x == ToNumber(a)
           y == ToNumber(b)
       IN IF x.t = "NaN" \/ y.t = "NaN" THEN NaN ELSE Num(x.n + y.n)

\* a > 0 for any a (a comparison with NaN is false)
GtZero(a) == LET x == ToNumber(a) IN x.t = "number" /\ x.n > 0

\* ((x / y) * 100).toFixed(1) as a fraction p / q, for integers p >= 0, q > 0;
\* a value halfway between two tenths goes up
ToFixed1(p, q) ==
  LET tenths == (20 * p + q) \div (2 * q)
  IN ToString(tenths \div 10) \o "." \o ToString(tenths % 10)

\* (p / q).toFixed(1) for integers p and q > 0, from the exact quotient (a
\* value halfway between two tenths goes away from zero)
Fixed1(p, q) == IF p < 0 THEN "-" \o ToFixed1(-p, q) ELSE ToFixed1(p, q)

RECURSIVE Log2Floor(_, _, _)
\* The binary exponent e of p / q: q * 2^e <= p < q * 2^(e + 1), for p >= q
Log2Floor(p, q, e) == IF 2 * q <= p THEN Log2Floor(p, 2 * q, e + 1) ELSE e

RECURSIVE DoubledMod(_, _, _)
\* (x * 2^k) mod q
DoubledMod(x, k, q) == IF k = 0 THEN x ELSE DoubledMod((2 * x) % q, k - 1, q)

\* The double nearest to p / q (53 significant bits) is not below p / q
DoubleNotBelow(p, q) ==
  LET rem == DoubledMod(p % q, 52 - Log2Floor(p, q, 0), q)
  IN rem = 0 \/ 2 * rem > q

\* (p / q).toFixed(1) for integers p >= q > 0: the tenth nearest to the double
\* p / q, the larger one when the double is exactly halfway
DivToFixed1(p, q) ==
  LET low    == (10 * p) \div q
      rem    == (10 * p) % q
      tenths == IF 2 * rem < q THEN low
                ELSE IF 2 * rem > q THEN low + 1
                ELSE IF DoubleNotBelow(p, q) THEN low + 1 ELSE low
  IN ToString(tenths \div 10) \o "." \o ToString(tenths % 10)

\* Math.round(p / q) for integers p >= 0, q > 0 (halves round up)
RoundDiv(p, q) == (2 * p + q) \div (2 * q)

----------------------------------------------------------------------------
(* posthog.js: the normalizer                                              *)

\* sumData(arr)
RECURSIVE SumFrom(_, _, _)
SumFrom(a, i, acc) ==
  IF i > Len(a) THEN acc
  ELSE SumFrom(a, i + 1, Plus(acc, Or(a[i], Num(0))))

SumData(arr) == IF ~IsArray(arr) THEN Num(0) ELSE SumFrom(arr.a, 1, Num(0))

\* formatNumber(n)
FormatNumber(n) ==
  LET num == ToNumber(n)
  IN IF num.t = "NaN" THEN ToStringJS(n)
     ELSE IF num.n >= 1000000 THEN DivToFixed1(num.n, 1000000) \o "M"
     ELSE IF num.n >= 1000 THEN DivToFixed1(num.n, 1000) \o "K"
     ELSE ToString(num.n)

RECURSIVE HasPrefixAt(_, _, _)
HasPrefixAt(s, sub, i) ==
  \/ sub = ""
  \/ /\ i + Len(sub) - 1 <= Len(s)
     /\ SubSeq(s, i, i + Len(sub) - 1) = sub

\* String.prototype.startsWith
StartsWith(s, sub) == HasPrefixAt(s, sub, 1)

\* String.prototype.includes
Includes(s, sub) == \E i \in 1..(Len(s) + 1) : HasPrefixAt(s, sub, i)

\* kind.includes(x): a string method and an array method; any other kind has none
HasIncludes(kind) == kind.t \in {"string", "array"}

KindIncludes(kind, x) ==
  IF kind.t = "string" THEN Includes(kind.s, x)
  ELSE \E i \in DOMAIN kind.a : kind.a[i] = Str(x)

\* The kind string of a query-based insight (insight.query is truthy here).
QueryKind(insight) ==
  LET query == Get(insight, "query")
  IN Or(Or(OptGet(Get(query, "source"), "kind"), Get(query, "kind")), Str(""))

TypeOfKind(kind) ==
  IF KindIncludes(kind, "Funnel") \/ KindIncludes(kind, "funnel") THEN "FUNNEL"
  ELSE IF KindIncludes(kind, "Retention") \/ KindIncludes(kind, "retention") THEN "RETENTION"
  ELSE IF KindIncludes(kind, "Path") \/ KindIncludes(kind, "path") THEN "PATHS"
  ELSE IF KindIncludes(kind, "Lifecycle") \/ KindIncludes(kind, "lifecycle") THEN "LIFECYCLE"
  ELSE IF KindIncludes(kind, "Stickiness") \/ KindIncludes(kind, "stickiness") THEN "STICKINESS"
  ELSE "TRENDS"

\* Type resolution of parseInsightData: [raised, type].  It runs before the
\* try block, so a kind without an includes method raises to the caller.
ResolveType(insight) ==
  LET filters == Get(insight, "filters")
  IN IF Truthy(filters) /\ Truthy(Get(filters, "insight"))
     THEN [raised |-> FALSE, type |-> Get(filters, "insight")]
     ELSE IF Truthy(Get(insight, "query"))
     THEN IF HasIncludes(QueryKind(insight))
          THEN [raised |-> FALSE, type |-> Str(TypeOfKind(QueryKind(insight)))]
          ELSE [raised |-> TRUE, type |-> Undef]
     ELSE [raised |-> FALSE, type |-> Str("TRENDS")]

\* Display-variant resolution of parseInsightData
ResolveDisplay(insight) ==
  LET filters == Get(insight, "filters")
      query   == Get(insight, "query")
  IN Or(Or(Or(Or(OptGet(filters, "display"),
                 OptGet(OptGet(query, "trendsFilter"), "display")),
              OptGet(OptGet(OptGet(query, "source"), "trendsFilter"), "display")),
           OptGet(OptGet(query, "chartSettings"), "display")),
        Str(""))

\* Result location of parseInsightData
ResolveResult(insight) ==
  Coalesce(Get(insight, "result"), OptGet(Get(insight, "query_status"), "results"))

\* Defaults with the primary value initialised to the empty string
DefaultsEmptyPrimary == [pv |-> Str(""), sl |-> Str(""), series |-> <<>>]

\* The values primaryValue, secondaryLabel and series hold when the try block
\* is entered.
Defaults == [pv |-> Str(EMDASH), sl |-> Str(""), series |-> <<>>]

AnyNullish(a) == \E i \in DOMAIN a : IsNullish(a[i])

\* An item total that takes the data whenever the count is falsy
ItemTotalCountOrData(s) == Or(Or(Get(s, "count"), SumData(Get(s, "data"))), Num(0))

\* s.count ?? sumData(s.data) ?? 0
ItemTotal(s) == Coalesce(Coalesce(Get(s, "count"), SumData(Get(s, "data"))), Num(0))

RECURSIVE SumTotals(_, _, _)
SumTotals(a, i, acc) ==
  IF i > Len(a) THEN acc ELSE SumTotals(a, i + 1, Plus(acc, ItemTotal(a[i])))

RECURSIVE SumValues(_, _, _)
SumValues(series, i, acc) ==
  IF i > Len(series) THEN acc ELSE SumValues(series, i + 1, Plus(acc, series[i].value))

\* display is one of the bar variants (display.startsWith needs a string)
IsBarDisplay(display) ==
  \/ StartsWith(display.s, "ActionsBar")
  \/ display = Str("ActionsUnstackedBar")
  \/ display = Str("ActionsStackedBar")
  \/ display = Str("ActionsBarValue")

\* The zip with every label taken one position late
ZipSeriesOffByOne(first) ==
  LET data   == Or(Get(first, "data"), Arr(<<>>))
      labels == Or(Get(first, "labels"), Arr(<<>>))
  IN [i \in 1..Len(data.a) |->
        [label |-> Or(Index(labels, i), Str("")), value |-> data.a[i]]]

\* (first.data || []).map((v, i) => ({label: (first.labels || [])[i] || '', value: v}))
ZipSeries(first) ==
  LET data   == Or(Get(first, "data"), Arr(<<>>))
      labels == Or(Get(first, "labels"), Arr(<<>>))
  IN [i \in 1..Len(data.a) |->
        [label |-> Or(Index(labels, i - 1), Str("")), value |-> data.a[i]]]

\* The TRENDS / LIFECYCLE / STICKINESS branch of the try block.  Each IF that
\* yields early is a statement that throws: whatever was assigned before it
\* stays assigned.
ExtractTrends(display, result) ==
  IF ~(IsArray(result) /\ Len(result.a) > 0) THEN Defaults
  ELSE IF display = Str("BoldNumber")
  THEN IF AnyNullish(result.a) THEN Defaults
       ELSE [pv     |-> Str(FormatNumber(SumTotals(result.a, 1, Num(0)))),
             sl     |-> Or(Get(result.a[1], "label"), Str("")),
             series |-> <<>>]
  ELSE IF display = Str("ActionsPie")
  THEN IF AnyNullish(result.a) THEN Defaults
       ELSE LET series == [i \in 1..Len(result.a) |->
                             [label |-> Or(Or(Get(result.a[i], "label"),
                                              Get(result.a[i], "name")), Str("")),
                              value |-> ItemTotal(result.a[i])]]
            IN [pv     |-> Str(FormatNumber(SumValues(series, 1, Num(0)))),
                sl     |-> Str(ToString(Len(series)) \o " series"),
                series |-> series]
  ELSE LET first == result.a[1]
       IN IF IsNullish(first) THEN Defaults
          ELSE LET pv == Str(FormatNumber(Coalesce(Get(first, "count"),
                                                   SumData(Get(first, "data")))))
                   sl == Or(Get(first, "label"), Str(""))
               IN IF ~IsString(display)
                  THEN [pv |-> pv, sl |-> sl, series |-> <<>>]
                  ELSE IF ~IsArray(Or(Get(first, "data"), Arr(<<>>)))
                  THEN [pv |-> pv, sl |-> sl, series |-> <<>>]
                  ELSE [pv |-> pv, sl |-> sl, series |-> ZipSeries(first)]

\* The conversion rate cut, not rounded, to one decimal
ConversionRateTruncated(lastCount, firstCount) ==
  LET l == ToNumber(lastCount)
      f == ToNumber(firstCount)
      tenths == (1000 * l.n) \div f.n
  IN IF l.t = "NaN" THEN "NaN"
     ELSE ToString(tenths \div 10) \o "." \o ToString(tenths % 10)

\* ((p / q) * 100).toFixed(1) for any count values p (last) and q (first > 0)
ConversionRate(lastCount, firstCount) ==
  LET l == ToNumber(lastCount)
      f == ToNumber(firstCount)
  IN IF l.t = "NaN" THEN "NaN" ELSE ToFixed1(100 * l.n, f.n)

\* The FUNNEL branch of the try block
ExtractFunnel(result) ==
  IF ~(IsArray(result) /\ Len(result.a) >= 2) THEN Defaults
  ELSE LET first == result.a[1]
           last  == result.a[Len(result.a)]
       IN IF IsNullish(first) THEN Defaults
          ELSE IF GtZero(Get(first, "count")) /\ IsNullish(last) THEN Defaults
          ELSE LET rate == IF GtZero(Get(first, "count"))
                           THEN ConversionRate(Get(last, "count"), Get(first, "count"))
                           ELSE "0"
                   pv   == Str(rate \o "%")
               IN IF IsNullish(last) THEN [Defaults EXCEPT !.pv = pv]
                  ELSE LET sl == Str(ToStringJS(Get(first, "name")) \o " " \o ARROW
                                     \o " " \o ToStringJS(Get(last, "name")))
                       IN IF AnyNullish(result.a)
                          THEN [pv |-> pv, sl |-> sl, series |-> <<>>]
                          ELSE [pv |-> pv, sl |-> sl,
                                series |-> [i \in 1..Len(result.a) |->
                                  [label |-> Get(result.a[i], "name"),
                                   value |-> Get(result.a[i], "count")]]]

\* The retained percentage cut, not rounded, to an integer
RetainedPctTruncated(count, day0Count) ==
  LET c == ToNumber(count)
      d == ToNumber(day0Count)
  IN IF c.t = "NaN" THEN NaN ELSE Num((100 * c.n) \div d.n)

\* Math.round((count / day0Count) * 100) for a day0Count > 0
RetainedPct(count, day0Count) ==
  LET c == ToNumber(count)
      d == ToNumber(day0Count)
  IN IF c.t = "NaN" THEN NaN ELSE Num(RoundDiv(100 * c.n, d.n))

\* The RETENTION branch of the try block
ExtractRetention(result) ==
  IF ~(IsArray(result) /\ Len(result.a) > 0) THEN Defaults
  ELSE LET latest == result.a[1]
       IN IF IsNullish(latest) THEN Defaults
          ELSE LET values    == Get(latest, "values")
                   day0Count == Or(OptGet(IF IsNullish(values) THEN Undef
                                          ELSE Index(values, 0), "count"), Num(0))
                   vals      == Or(values, Arr(<<>>))
               IN IF ~IsArray(vals) THEN Defaults
                  ELSE IF GtZero(day0Count) /\ AnyNullish(vals.a) THEN Defaults
                  ELSE LET series == [i \in 1..Len(vals.a) |->
                             [label |-> Str("Day " \o ToString(i - 1)),
                              value |-> IF GtZero(day0Count)
                                        THEN RetainedPct(Get(vals.a[i], "count"), day0Count)
                                        ELSE Num(0)]]
                       IN IF Len(series) > 1
                          THEN [pv     |-> Plus(series[2].value, Str("%")),
                                sl     |-> Str("Day 1 retention"),
                                series |-> series]
                          ELSE [pv     |-> Str(FormatNumber(day0Count)),
                                sl     |-> Str("Retained (Day 0)"),
                                series |-> series]

\* p.edge_weight || p.count || 0
EdgeWeight(p) == Or(Or(Get(p, "edge_weight"), Get(p, "count")), Num(0))

\* The comparator (a, b) => weight(b) - weight(a) is positive: a sorts after b.
\* A NaN difference is not positive.
SortsAfter(a, b) ==
  LET wa == ToNumber(EdgeWeight(a))
      wb == ToNumber(EdgeWeight(b))
  IN wa.t = "number" /\ wb.t = "number" /\ wb.n - wa.n > 0

RECURSIVE InsertEdge(_, _)
\* x goes before the first element that sorts after it (the sort is stable)
InsertEdge(sorted, x) ==
  IF sorted = <<>> THEN <<x>>
  ELSE IF SortsAfter(Head(sorted), x) THEN <<x>> \o sorted
  ELSE <<Head(sorted)>> \o InsertEdge(Tail(sorted), x)

RECURSIVE SortEdges(_, _, _)
\* Array.prototype.sort on the array it is called on
SortEdges(a, i, acc) ==
  IF i > Len(a) THEN acc ELSE SortEdges(a, i + 1, InsertEdge(acc, a[i]))

\* A filter that asks for the source only
QualifyingEdgesSourceOnly(a) ==
  SelectSeq(a, LAMBDA p : Truthy(Get(p, "source")))

\* .filter((p) => p.source && p.target): a new array
QualifyingEdges(a) ==
  SelectSeq(a, LAMBDA p : Truthy(Get(p, "source")) /\ Truthy(Get(p, "target")))

\* .slice(0, 6)
TopPaths == 6

\* The PATHS branch of the try block
ExtractPaths(result) ==
  LET pv == IF IsArray(result) THEN Str(FormatNumber(Num(Len(result.a)))) ELSE Str(EMDASH)
      sl == Str("total paths")
      a  == IF IsArray(result) THEN result.a ELSE <<>>
  IN IF AnyNullish(a) THEN [pv |-> pv, sl |-> sl, series |-> <<>>]
     ELSE LET sorted == SortEdges(QualifyingEdges(a), 1, <<>>)
              top    == SubSeq(sorted, 1, IF Len(sorted) < TopPaths THEN Len(sorted) ELSE TopPaths)
          IN [pv |-> pv, sl |-> sl,
              series |-> [i \in 1..Len(top) |->
                 [label |-> Str(ToStringJS(Get(top[i], "source")) \o " " \o ARROW
                                \o " " \o ToStringJS(Get(top[i], "target"))),
                  value |-> EdgeWeight(top[i])]]]

\* The generic fallback branch of the try block
ExtractGeneric(result) ==
  IF ~(IsArray(result) /\ Len(result.a) > 0) THEN Defaults
  ELSE LET first == result.a[1]
       IN IF IsNullish(first) THEN Defaults
          ELSE [pv     |-> Str(FormatNumber(Coalesce(Coalesce(Get(first, "count"),
                                   Get(first, "aggregated_value")), Num(0)))),
                sl     |-> Or(Get(first, "label"), Str("")),
                series |-> <<>>]

\* The try block of parseInsightData
Extract(type, display, result) ==
  IF type \in {Str("TRENDS"), Str("LIFECYCLE"), Str("STICKINESS")}
  THEN ExtractTrends(display, result)
  ELSE IF type = Str("FUNNEL") THEN ExtractFunnel(result)
  ELSE IF type = Str("RETENTION") THEN ExtractRetention(result)
  ELSE IF type = Str("PATHS") THEN ExtractPaths(result)
  ELSE ExtractGeneric(result)

\* parseInsightData(title, insight): [raised, rec]
ParseInsightData(title, insight) ==
  LET ty == ResolveType(insight)
  IN IF ty.raised THEN [raised |-> TRUE, rec |-> None]
     ELSE LET display == ResolveDisplay(insight)
              x       == Extract(ty.type, display, ResolveResult(insight))
          IN [raised |-> FALSE,
              rec    |-> [title          |-> title,
                          type           |-> ty.type,
                          display        |-> display,
                          primaryValue   |-> x.pv,
                          secondaryLabel |-> x.sl,
                          series         |-> x.series]]

\* parseInsight(insight)
ParseInsight(insight) ==
  ParseInsightData(
    Or(Or(Get(insight, "name"), Get(insight, "derived_name")), Str("PostHog Insight")),
    insight)

\* The tile filter keeping every tile whose insight has a result that is not null
TileQualifiesNonNull(t) ==
  /\ Truthy(Get(t, "insight"))
  /\ ~IsNullish(ResolveResult(Get(t, "insight")))

\* The tile filter of parseDashboard: t.insight && (result ?? query_status?.results)
TileQualifies(t) ==
  /\ Truthy(Get(t, "insight"))
  /\ Truthy(ResolveResult(Get(t, "insight")))

\* parseDashboard(dashboard): [raised, rec].  The record for a dashboard without
\* a qualifying tile has no display key.
ParseDashboard(dashboard) ==
  LET title == Or(Get(dashboard, "name"), Str("PostHog Dashboard"))
      tiles == Or(Get(dashboard, "tiles"), Arr(<<>>))
  IN IF ~IsArray(tiles) THEN [raised |-> TRUE, rec |-> None]
     ELSE IF AnyNullish(tiles.a) THEN [raised |-> TRUE, rec |-> None]
     ELSE LET qualifying == SelectSeq(tiles.a, TileQualifies)
          IN IF Len(qualifying) = 0
             THEN [raised |-> FALSE,
                   rec    |-> [title          |-> title,
                               type           |-> Str("empty"),
                               display        |-> Undef,
                               primaryValue   |-> Str(EMDASH),
                               secondaryLabel |-> Str(""),
                               series         |-> <<>>]]
             ELSE LET insight == Get(qualifying[1], "insight")
                  IN ParseInsightData(
                       Or(Or(Get(insight, "name"), Get(insight, "derived_name")), title),
                       insight)

\* The tail of fetchInsight: envelope unwrap, then dashboard or single insight
Normalize(data) ==
  LET p == Or(Get(data, "insight"), data)
  IN IF Truthy(Get(p, "tiles")) THEN ParseDashboard(p) ELSE ParseInsight(p)

----------------------------------------------------------------------------
(* markup.js: helpers                                                      *)

RECURSIVE ReplaceAll(_, _, _)
\* str.replace(/c/g, r) for a one-character pattern c
ReplaceAll(s, c, r) ==
  LET at == {i \in 1..Len(s) : SubSeq(s, i, i) = c}
  IN IF at = {} THEN s
     ELSE LET i == CHOOSE i \in at : \A j \in at : i <= j
          IN SubSeq(s, 1, i - 1) \o r \o ReplaceAll(SubSeq(s, i + 1, Len(s)), c, r)

\* esc without the apostrophe replacement
EscNoApostrophe(str) ==
  ReplaceAll(ReplaceAll(ReplaceAll(ReplaceAll(
    ToStringJS(str), "&", "&amp;"), "<", "&lt;"), ">", "&gt;"), "\"", "&quot;")

\* esc(str): five replacements, the ampersand first
Esc(str) ==
  ReplaceAll(ReplaceAll(ReplaceAll(ReplaceAll(ReplaceAll(
    ToStringJS(str), "&", "&amp;"), "<", "&lt;"), ">", "&gt;"), "\"", "&quot;"), "'", "&#39;")

\* truncate(str, len)
Truncate(str, len) ==
  LET s == ToStringJS(str)
  IN IF Len(s) > len THEN SubSeq(s, 1, len - 1) \o ELLIPSIS ELSE s

LowerCase == "abcdefghijklmnopqrstuvwxyz"

UpperCase == "ABCDEFGHIJKLMNOPQRSTUVWXYZ"

UpperChar(c) ==
  IF \E i \in 1..26 : SubSeq(LowerCase, i, i) = c
  THEN LET i == CHOOSE i \in 1..26 : SubSeq(LowerCase, i, i) = c IN SubSeq(UpperCase, i, i)
  ELSE c

RECURSIVE ToUpperCase(_)
ToUpperCase(s) ==
  IF Len(s) = 0 THEN ""
  ELSE IF Len(s) = 1 THEN UpperChar(s)
  ELSE LET h == Len(s) \div 2
       IN ToUpperCase(SubSeq(s, 1, h)) \o ToUpperCase(SubSeq(s, h + 1, Len(s)))

\* formatAxisNum(n)
FormatAxisNum(n) ==
  LET num == ToNumber(n)
  IN IF num.t = "NaN" THEN ToStringJS(n)
     ELSE IF num.n >= 1000000
     THEN (IF num.n % 1000000 = 0 THEN ToString(num.n \div 1000000)
           ELSE DivToFixed1(num.n, 1000000)) \o "M"
     ELSE IF num.n >= 1000
     THEN (IF num.n % 1000 = 0 THEN ToString(num.n \div 1000)
           ELSE DivToFixed1(num.n, 1000)) \o "K"
     ELSE ToString(num.n)

RECURSIVE Dedup(_, _)
\* [...new Set(idxs)]: first occurrences, in order
Dedup(idxs, acc) ==
  IF idxs = <<>> THEN acc
  ELSE Dedup(Tail(idxs),
             IF \E j \in DOMAIN acc : acc[j] = Head(idxs) THEN acc ELSE Append(acc, Head(idxs)))

\* The index selection with the fractional positions cut, not rounded
EvenlySpacedTruncated(total, count) ==
  IF total <= count THEN [i \in 1..total |-> i - 1]
  ELSE Dedup(<<0>> \o [i \in 1..(count - 2) |-> (i * (total - 1)) \div (count - 1)]
                   \o <<total - 1>>, <<>>)

\* evenlySpaced(total, count): 0-based indices
EvenlySpaced(total, count) ==
  IF total <= count THEN [i \in 1..total |-> i - 1]
  ELSE Dedup(<<0>> \o [i \in 1..(count - 2) |-> RoundDiv(i * (total - 1), count - 1)]
                   \o <<total - 1>>, <<>>)

\* The target number of x-axis labels
XLabels == 6

\* seriesDateRange(series)
SeriesDateRange(series) ==
  IF Len(series) < 2 THEN ""
  ELSE LET first == series[1].label
           last  == series[Len(series)].label
       IN IF Truthy(first) /\ Truthy(last)
          THEN ToStringJS(first) \o " " \o ENDASH \o " " \o ToStringJS(last)
          ELSE ""

TypeNames ==
  [TRENDS |-> "Trends", FUNNEL |-> "Funnel", RETENTION |-> "Retention",
   PATHS |-> "Paths", LIFECYCLE |-> "Lifecycle", STICKINESS |-> "Stickiness"]

\* formatType(type, display): a JS value, a string unless type is a truthy non-string
FormatType(type, display) ==
  IF display = Str("BoldNumber") THEN Str("Big number")
  ELSE IF display = Str("ActionsPie") THEN Str("Pie chart")
  ELSE IF display \in {Str("ActionsBar"), Str("ActionsUnstackedBar"),
                       Str("ActionsStackedBar"), Str("ActionsBarValue")}
  THEN Str("Bar chart")
  ELSE IF display = Str("ActionsAreaGraph") THEN Str("Area chart")
  ELSE IF ~IsNullish(type) /\ ToStringJS(type) \in DOMAIN TypeNames
  THEN Str(TypeNames[ToStringJS(type)])
  ELSE Or(type, Str("Insight"))

RECURSIVE Magnitude(_, _)
\* 10^floor(log10(roughStep)) in thousandths, for a roughStep >= m thousandths
Magnitude(roughMilli, m) ==
  IF 10 * m <= roughMilli THEN Magnitude(roughMilli, 10 * m) ELSE m

\* The candidate steps without the 2 multiplier
NiceStepsNoDouble(m) == <<m, (5 * m) \div 2, (5 * m) \div 2, 5 * m, 10 * m>>

\* The candidate steps without the 2.5 multiplier
NiceStepsNoQuarter(m) == <<m, 2 * m, 5 * m, 5 * m, 10 * m>>

\* magnitude * [1, 2, 2.5, 5, 10], in thousandths
NiceSteps(m) == <<m, 2 * m, (5 * m) \div 2, 5 * m, 10 * m>>

\* niceYAxis(rawMax) for an integer or NaN rawMax; axisMax and the steps are
\* kept in thousandths, the ticks are the rounded integers the code pushes.
NiceYAxis(rawMax) ==
  IF rawMax.t = "NaN" THEN [ticks |-> <<>>, axisMaxMilli |-> 0, isNaN |-> TRUE]
  ELSE IF rawMax.n <= 0 THEN [ticks |-> <<0>>, axisMaxMilli |-> 1000, isNaN |-> FALSE]
  ELSE LET roughMilli == 250 * rawMax.n
           m          == Magnitude(roughMilli, 100)
           steps      == NiceSteps(m)
           step       == steps[CHOOSE i \in 1..5 :
                                 /\ steps[i] >= roughMilli
                                 /\ \A j \in 1..(i - 1) : steps[j] < roughMilli]
           axisMax    == ((1000 * rawMax.n + step - 1) \div step) * step
       IN [ticks        |-> [k \in 1..((axisMax \div step) + 1) |->
                               RoundDiv((k - 1) * step, 1000)],
           axisMaxMilli |-> axisMax,
           isNaN        |-> FALSE]

RECURSIVE MaxFrom(_, _, _)
MaxFrom(series, i, acc) ==
  IF i > Len(series) THEN acc
  ELSE LET v == ToNumber(series[i].value)
       IN MaxFrom(series, i + 1,
                  IF acc.t = "NaN" \/ v.t = "NaN" THEN NaN
                  ELSE IF v.n > acc.n THEN v ELSE acc)

\* Math.max(...values) for a series of at least one entry
MaxValue(series) == MaxFrom(series, 2, ToNumber(series[1].value))

\* The maximum bar width of the funnel: VW - labelW - 80
BarMaxW == 480

\* ((a / b) * barMaxW).toFixed(1) for any a and b
StepBarW(a, b) ==
  LET x == ToNumber(a)
      y == ToNumber(b)
  IN IF x.t = "NaN" \/ y.t = "NaN" THEN "NaN"
     ELSE IF y.n = 0 THEN (IF x.n = 0 THEN "NaN" ELSE "Infinity")
     ELSE IF y.n < 0 THEN Fixed1(-(BarMaxW * x.n), -y.n)
     ELSE Fixed1(BarMaxW * x.n, y.n)

\* ((a / b) * 100).toFixed(1) for any a and b
PctFixed1(a, b) ==
  LET x == ToNumber(a)
      y == ToNumber(b)
  IN IF x.t = "NaN" \/ y.t = "NaN" THEN "NaN"
     ELSE IF y.n = 0 THEN (IF x.n = 0 THEN "NaN" ELSE "Infinity")
     ELSE ToFixed1(100 * x.n, y.n)

----------------------------------------------------------------------------
(* markup.js: renderers.  A rendered fragment is the sequence of its       *)
(* interpolated texts: slot names the position in the template, raw is the *)
(* value the template expression starts from, text is what it emits.       *)

Frag(slot, raw, text) == [slot |-> slot, raw |-> raw, text |-> text]

RECURSIVE Flatten(_)
Flatten(ss) == IF ss = <<>> THEN <<>> ELSE Head(ss) \o Flatten(Tail(ss))

\* The y-axis tick labels and the x-axis labels shared by the line and bar charts
AxisFrags(series) ==
  LET axis  == NiceYAxis(MaxValue(series))
      xIdxs == EvenlySpaced(Len(series), IF Len(series) < XLabels THEN Len(series) ELSE XLabels)
  IN [k \in 1..Len(axis.ticks) |->
        LET tick == FormatAxisNum(Num(axis.ticks[k]))
        IN Frag("ytick", tick, Esc(Str(tick)))]
     \o
     [k \in 1..Len(xIdxs) |->
        LET label == Or(series[xIdxs[k] + 1].label, Str(""))
        IN Frag("xlabel", ToStringJS(label), Esc(label))]

\* yOf(v).toFixed(1), shared by the line and bar charts:
\* padT + innerH - (v / (axisMax || 1)) * innerH with padT 10 and innerH 204.
\* axisMax is a multiple of 50 thousandths.
YOf(v, axis) ==
  LET num  == ToNumber(v)
      unit == IF axis.isNaN THEN 20 ELSE axis.axisMaxMilli \div 50
  IN IF num.t = "NaN" THEN "NaN" ELSE Fixed1(214 * unit - 4080 * num.n, unit)

\* xOf(i).toFixed(1) of the line chart: padL + (i / max(n - 1, 1)) * innerW
\* with padL 52 and innerW 700
LineXOf(i, n) ==
  LET d == IF n - 1 > 1 THEN n - 1 ELSE 1
  IN Fixed1(52 * d + 700 * i, d)

\* barW = max(2, floor((innerW / n) * 0.72)); the double product floors to
\* 504 div n for the n up to 8 that a series reaches
BarW(n) == IF 504 \div n > 2 THEN 504 \div n ELSE 2

\* xOf(i).toFixed(1) of the bar chart: padL + i * (barW + gap) with
\* gap = (innerW - barW * n) / max(n - 1, 1)
BarXOf(i, n) ==
  LET d == IF n - 1 > 1 THEN n - 1 ELSE 1
  IN Fixed1(52 * d + i * (BarW(n) * d + 700 - BarW(n) * n), d)

\* renderLineChart(series): the axis texts, then the polyline's points
RenderLineChart(series) ==
  AxisFrags(series)
  \o [k \in 1..Len(series) |->
       Frag("point", ToStringJS(series[k].value),
            LineXOf(k - 1, Len(series)) \o ","
            \o YOf(series[k].value, NiceYAxis(MaxValue(series))))]

\* renderBarChart(series): the axis texts, then each bar's x and y
RenderBarChart(series) ==
  AxisFrags(series)
  \o [k \in 1..Len(series) |->
       Frag("bar", ToStringJS(series[k].value),
            BarXOf(k - 1, Len(series)) \o ","
            \o YOf(series[k].value, NiceYAxis(MaxValue(series))))]

\* renderFunnelChart(series)
RenderFunnelChart(series) ==
  LET maxVal == Or(series[1].value, Num(1))
  IN Flatten([i \in 1..Len(series) |->
       LET step  == series[i]
           label == Truncate(Or(step.label, Str("Step " \o ToString(i))), 28)
           count == FormatAxisNum(step.value)
           pct   == IF GtZero(maxVal) THEN PctFixed1(step.value, maxVal) ELSE "0"
           barW  == StepBarW(step.value, maxVal)
       IN <<Frag("steplabel", label, Esc(Str(label))),
            Frag("stepwidth", ToStringJS(step.value), barW),
            Frag("stepcount", count, Esc(Str(count))),
            Frag("steppct", pct, pct)>>])

\* renderBigNumber(primaryValue, secondaryLabel)
RenderBigNumber(primaryValue, secondaryLabel) ==
  <<Frag("primary", ToStringJS(primaryValue), Esc(Str(ToStringJS(primaryValue))))>>
  \o (IF Truthy(secondaryLabel)
      THEN <<Frag("secondary", ToStringJS(secondaryLabel), Esc(secondaryLabel))>>
      ELSE <<>>)

\* The legend lists the first 6 slices
LegendItems == 6

\* renderPieChart(series)
RenderPieChart(series) ==
  LET total == Or(SumValues(series, 1, Num(0)), Num(1))
      n     == IF Len(series) < LegendItems THEN Len(series) ELSE LegendItems
  IN Flatten([i \in 1..n |->
       LET label == Truncate(series[i].label, 32)
           pct   == PctFixed1(series[i].value, total)
       IN <<Frag("legendlabel", label, Esc(Str(label))),
            Frag("legendpct", pct, pct)>>])

\* renderPathsList(series, totalCount)
RenderPathsList(series, totalCount) ==
  <<Frag("total", ToStringJS(totalCount), Esc(Str(ToStringJS(totalCount))))>>
  \o Flatten([i \in 1..Len(series) |->
       LET label == Truncate(series[i].label, 60)
           val   == FormatAxisNum(series[i].value)
       IN <<Frag("pathlabel", label, Esc(Str(label))),
            Frag("pathvalue", val, Esc(Str(val)))>>])

\* renderEmptyChart(): the placeholder has no interpolated text
RenderEmptyChart == <<>>

\* The chained conditional with the funnel test moved above the bar test
ChooseChartFunnelFirst(type, display, series) ==
  IF display = Str("BoldNumber") THEN "bigNumber"
  ELSE IF display = Str("ActionsPie") /\ Len(series) >= 2 THEN "pie"
  ELSE IF type = Str("FUNNEL") /\ Len(series) >= 2 THEN "funnel"
  ELSE IF IsBarDisplay(display) /\ Len(series) >= 2 THEN "bar"
  ELSE IF type = Str("PATHS") /\ Len(series) >= 1 THEN "paths"
  ELSE IF Len(series) >= 2 THEN "line"
  ELSE "empty"

\* The chained conditional with the line chart's gate off by one
ChooseChartLineFromOne(type, display, series) ==
  IF display = Str("BoldNumber") THEN "bigNumber"
  ELSE IF display = Str("ActionsPie") /\ Len(series) >= 2 THEN "pie"
  ELSE IF IsBarDisplay(display) /\ Len(series) >= 2 THEN "bar"
  ELSE IF type = Str("FUNNEL") /\ Len(series) >= 2 THEN "funnel"
  ELSE IF type = Str("PATHS") /\ Len(series) >= 1 THEN "paths"
  ELSE IF Len(series) >= 1 THEN "line"
  ELSE "empty"

\* The renderer the chained conditional of renderMarkup returns from
ChooseChart(type, display, series) ==
  IF display = Str("BoldNumber") THEN "bigNumber"
  ELSE IF display = Str("ActionsPie") /\ Len(series) >= 2 THEN "pie"
  ELSE IF IsBarDisplay(display) /\ Len(series) >= 2 THEN "bar"
  ELSE IF type = Str("FUNNEL") /\ Len(series) >= 2 THEN "funnel"
  ELSE IF type = Str("PATHS") /\ Len(series) >= 1 THEN "paths"
  ELSE IF Len(series) >= 2 THEN "line"
  ELSE "empty"

RenderChart(chart, rec) ==
  CASE chart = "bigNumber" -> RenderBigNumber(rec.primaryValue, rec.secondaryLabel)
    [] chart = "pie"       -> RenderPieChart(rec.series)
    [] chart = "bar"       -> RenderBarChart(rec.series)
    [] chart = "funnel"    -> RenderFunnelChart(rec.series)
    [] chart = "paths"     -> RenderPathsList(rec.series, rec.primaryValue)
    [] chart = "line"      -> RenderLineChart(rec.series)
    [] OTHER               -> RenderEmptyChart

\* renderMarkup(record): [raised, chart, frags].  display.startsWith and
\* typeLabel.toUpperCase need strings; nothing in renderMarkup catches.
RenderMarkup(rec) ==
  LET display   == IF rec.display = Undef THEN Str("") ELSE rec.display
      typeLabel == FormatType(rec.type, display)
  IN IF ~IsString(display) \/ ~IsString(typeLabel)
     THEN [raised |-> TRUE, chart |-> "none", frags |-> <<>>]
     ELSE LET chart     == ChooseChart(rec.type, display, rec.series)
              dateRange == IF display \in {Str("BoldNumber"), Str("ActionsPie")} THEN ""
                           ELSE SeriesDateRange(rec.series)
              metaLine  == ToUpperCase(typeLabel.s)
                           \o (IF dateRange # "" THEN " " \o BULLET \o " " \o dateRange ELSE "")
          IN [raised |-> FALSE,
              chart  |-> chart,
              frags  |-> <<Frag("meta", metaLine, Esc(Str(metaLine))),
                           Frag("title", ToStringJS(rec.title), Esc(rec.title))>>
                         \o RenderChart(chart, rec)
                         \o <<Frag("footer", ToStringJS(rec.title), Esc(rec.title))>>]

\* renderError(message)
RenderError(message) ==
  [raised |-> FALSE, chart |-> "error",
   frags  |-> <<Frag("message", message, Esc(Str(message))),
                Frag("bar", "Error", Esc(Str("Error")))>>]

\* renderNoConfig()
RenderNoConfig ==
  [raised |-> FALSE, chart |-> "noConfig",
   frags  |-> <<Frag("bar", "Setup required", Esc(Str("Setup required")))>>]

----------------------------------------------------------------------------
(* The decoded blobs the pipeline is run on                                *)

\* Longest result list (series items, funnel steps, cohorts) and tile list
MaxLen == 2

\* Longest list of path edges
MaxEdges == 8

\* The title of the escaping example: all five reserved characters
Hostile == "<script>&\"'"

GoodItem ==
  Obj([label  |-> Str("Pageview"), name |-> Str("Sign up"), count |-> Num(100),
       data   |-> Arr(<<Num(40), Num(25), Num(35)>>),
       labels |-> Arr(<<Str("Mon"), Str("Tue"), Str("Wed")>>),
       values |-> Arr(<<Obj([count |-> Num(100)]), Obj([count |-> Num(40)]),
                        Obj([count |-> Num(10)])>>),
       source |-> Str("/home"), target |-> Str("/pricing"), edge_weight |-> Num(9)])

HostileItem ==
  Obj([label  |-> Str(Hostile), name |-> Str(Hostile), count |-> Num(25),
       data   |-> Arr(<<Num(1500), Null, Num(7), Num(0), Num(12), Num(3), Num(9), Num(2)>>),
       labels |-> Arr(<<Str(Hostile), Str("d2"), Str("d3"), Str("d4"), Str("d5"),
                        Str("d6"), Str("d7")>>),
       values |-> Arr(<<Obj([count |-> Num(8)]), Obj(<<>>)>>),
       source |-> Str(Hostile), target |-> Str("/b")])

SparseItem ==
  Obj([count |-> Null, data |-> Num(5), values |-> Num(5), source |-> Str("/only-source")])

ZeroItem ==
  Obj([label  |-> Str(""), count |-> Num(0), data |-> Arr(<<Num(0), Num(0)>>),
       values |-> Arr(<<Obj([count |-> Num(0)]), Obj([count |-> Num(3)])>>),
       source |-> Str("/x"), target |-> Str("/y")])

TextItem ==
  Obj([label |-> Str("Sessions"), count |-> Str(Hostile), data |-> Str("abc"),
       values |-> Arr(<<Obj([count |-> Num(2500000)])>>)])

ItemVals == {GoodItem, HostileItem, SparseItem, ZeroItem, TextItem, Null}

SeqsUpTo(S, n) == UNION {[1..k -> S] : k \in 0..n}

ResultVals ==
  {Undef, Null, Num(5), Str("oops")} \cup {Arr(a) : a \in SeqsUpTo(ItemVals, MaxLen)}

TypeVals ==
  {Str("TRENDS"), Str("FUNNEL"), Str("RETENTION"), Str("PATHS"), Str("LIFECYCLE"),
   Str("STICKINESS"), Str("SQL")}

DisplayVals ==
  {Undef, Str("BoldNumber"), Str("ActionsPie"), Str("ActionsBar"),
   Str("ActionsAreaGraph"), Num(5)}

\* Legacy insights: every type, display and result shape
LegacyPayloads ==
  {Obj([name    |-> Str("Signups"),
        filters |-> Obj([insight |-> ty, display |-> d]),
        result  |-> r]) : ty \in TypeVals, d \in DisplayVals, r \in ResultVals}

KindVals ==
  {Undef, Str("TrendsQuery"), Str("FunnelsQuery"), Str("funnels"), Str("FUNNELSQUERY"),
   Str("RetentionQuery"), Str("PathsQuery"), Str("LifecycleQuery"),
   Str("StickinessQuery"), Str("DataTableNode"), Num(5), Arr(<<Str("Funnel")>>)}

QueryVals ==
  {Undef} \cup {Obj([kind |-> k]) : k \in KindVals}
          \cup {Obj([kind |-> Str("InsightVizNode"), source |-> Obj([kind |-> k])]) : k \in KindVals}
          \cup {Obj([kind |-> Str("InsightVizNode"),
                     source |-> Obj([kind |-> Str("TrendsQuery"),
                                     trendsFilter |-> Obj([display |-> d])])]) :
                  d \in DisplayVals}
          \cup {Obj([kind |-> Str("DataVisualizationNode"),
                     chartSettings |-> Obj([display |-> Str("ActionsStackedBar")])]),
                Obj([kind |-> Str("TrendsQuery"),
                     trendsFilter |-> Obj([display |-> Str("ActionsUnstackedBar")])])}

FiltersVals ==
  {Undef, Null, Num(5), Obj(<<>>), Obj([insight |-> Num(7)]), Obj([insight |-> Str(Hostile)]),
   Obj([insight |-> Str("FUNNELS")]), Obj([insight |-> Str("PATHS"), display |-> Str("ActionsBarValue")])}

NameVals == {Undef, Str("Signups"), Str(Hostile)}

\* Query-based and mixed insights: every filters / query / kind shape
QueryPayloads ==
  {Obj([name         |-> n,
        derived_name |-> Str("Derived"),
        filters      |-> f,
        query        |-> q,
        query_status |-> Obj([results |-> Arr(<<GoodItem, HostileItem>>)])]) :
     n \in NameVals, f \in FiltersVals, q \in QueryVals}

\* Distinct, unsorted edge weights
WeightOf(i) == ((7 * i) % 23) + 1

Edge(i) ==
  Obj([source |-> Str("/s" \o ToString(i)), target |-> Str("/t" \o ToString(i)),
       edge_weight |-> Num(WeightOf(i))])

\* Every second edge carries its weight as count; the third has no target
MixedEdge(i) ==
  IF i = 3 THEN Obj([source |-> Str("/s3"), edge_weight |-> Num(50)])
  ELSE IF i % 2 = 0
  THEN Obj([source |-> Str(Hostile), target |-> Str("/t" \o ToString(i)),
            count |-> Num(WeightOf(i))])
  ELSE Edge(i)

PathsPayloads ==
  {Obj([name    |-> Str("Top paths"),
        filters |-> Obj([insight |-> Str("PATHS")]),
        result  |-> Arr([i \in 1..n |-> IF mixed THEN MixedEdge(i) ELSE Edge(i)])]) :
     n \in 0..MaxEdges, mixed \in BOOLEAN}

\* Longest tile list
MaxTiles == 2

FunnelInsight ==
  Obj([name    |-> Str(Hostile),
       filters |-> Obj([insight |-> Str("FUNNEL")]),
       result  |-> Arr(<<GoodItem, HostileItem>>)])

PathsInsight ==
  Obj([derived_name |-> Str("Derived tile"),
       query        |-> Obj([kind |-> Str("PathsQuery")]),
       query_status |-> Obj([results |-> Arr(<<GoodItem, ZeroItem>>)])])

TileVals ==
  {Null, Obj(<<>>), Obj([insight |-> Num(5)]),
   Obj([insight |-> Obj([name |-> Str("No result"), result |-> Null])]),
   Obj([insight |-> Obj([name |-> Str("Zero result"), result |-> Num(0)])]),
   Obj([insight |-> Obj([result |-> Arr(<<>>)])]),
   Obj([insight |-> FunnelInsight]),
   Obj([insight |-> PathsInsight])}

DashboardPayloads ==
  {Obj([name |-> n, tiles |-> t]) :
     n \in NameVals, t \in {Num(5)} \cup {Arr(a) : a \in SeqsUpTo(TileVals, MaxTiles)}}

\* The scene envelope { type: 'scene', insight, ... }
EnvelopePayloads ==
  {Obj([type |-> Str("scene"), insight |-> p]) :
     p \in PathsPayloads \cup {Obj([name |-> Str("Board"),
                                    tiles |-> Arr(<<Obj([insight |-> FunnelInsight])>>)])}}

\* Step counts of the funnels: the example 100, 100, 25, a first step of 0,
\* rates that round up, down and from exactly halfway, and fewer than 2 steps
FunnelCounts ==
  {<<100, 100, 25>>, <<0, 5>>, <<40, 0>>, <<16, 1>>, <<3, 1>>, <<3, 2>>, <<7, 7>>,
   <<5, 10>>, <<100>>, <<>>}

FunnelPayloads ==
  {Obj([name   |-> Str("Checkout"),
        query  |-> Obj([kind |-> Str("InsightVizNode"),
                        source |-> Obj([kind |-> Str("FunnelsQuery")])]),
        result |-> Arr([i \in 1..Len(counts) |->
                          Obj([name  |-> Str("Step " \o ToString(i)),
                               count |-> Num(counts[i])])])]) :
     counts \in FunnelCounts}

\* Day counts of the first cohort: percentages that round up, down and from
\* exactly halfway, a day 0 of 0, a single day, and no day at all
CohortCounts == {<<3, 2, 1>>, <<8, 1>>, <<0, 4>>, <<1500>>, <<7>>, <<>>}

\* A cohort of the given day counts
Cohort(counts) ==
  Obj([values |-> Arr([i \in 1..Len(counts) |-> Obj([count |-> Num(counts[i])])])])

\* Each first cohort is followed by a later one of other counts
RetentionPayloads ==
  {Obj([name   |-> Str("Weekly retention"),
        query  |-> Obj([kind |-> Str("InsightVizNode"),
                        source |-> Obj([kind |-> Str("RetentionQuery")])]),
        result |-> Arr(<<Cohort(counts), Cohort(<<50, 5, 1>>)>>)]) :
     counts \in CohortCounts}

\* Series items for the big number: one with a count, one with data only,
\* one whose count is 0 beside data that is not
BigNumberItems ==
  <<Obj([label |-> Str("Visits"), count |-> Num(1200), data |-> Arr(<<Num(1), Num(2)>>)]),
    Obj([label |-> Str("Other"), data |-> Arr(<<Num(300), Num(45)>>)]),
    Obj([label |-> Str("None"), count |-> Num(0), data |-> Arr(<<Num(5), Num(5)>>)])>>

BigNumberPayloads ==
  {Obj([name    |-> Str("Total visits"),
        filters |-> Obj([insight |-> Str("TRENDS"), display |-> Str("BoldNumber")]),
        result  |-> Arr(SubSeq(BigNumberItems, k, 3))]) : k \in 1..3}

Payloads ==
  BigNumberPayloads \cup LegacyPayloads \cup QueryPayloads \cup PathsPayloads \cup DashboardPayloads
  \cup EnvelopePayloads \cup FunnelPayloads \cup RetentionPayloads

----------------------------------------------------------------------------
(* The pipeline, one blob at a time: fetchInsight's tail, then renderMarkup *)

\* The blob object if the PATHS chain sorted insight.result itself
PayloadSortedInPlace(data) ==
  LET result == Get(data, "result")
  IN IF /\ Get(data, "filters") # Undef
        /\ Get(Get(data, "filters"), "insight") = Str("PATHS")
        /\ IsArray(result)
        /\ ~AnyNullish(result.a)
     THEN Obj([data.o EXCEPT !.result = Arr(SortEdges(result.a, 1, <<>>))])
     ELSE data

\* The blob object after the normalizer has run on it.  No statement of the
\* normalizer assigns into the blob: the PATHS chain sorts the array that
\* filter returned, slice and map return new arrays.
PayloadAfterNormalize(data) == data

NoResult == [raised |-> FALSE, rec |-> None]

NoOutput == [raised |-> FALSE, chart |-> "none", frags |-> <<>>]

PipeInit ==
  /\ pc = "idle"
  /\ payload = None
  /\ payload0 = None
  /\ record = NoResult
  /\ record2 = NoResult
  /\ out = NoOutput
  /\ out2 = NoOutput

\* The fetch collaborator hands over a decoded blob
Decode(p) ==
  /\ pc = "idle"
  /\ payload' = p
  /\ payload0' = p
  /\ pc' = "decoded"
  /\ UNCHANGED <<record, record2, out, out2, srv, calc>>

\* fetchInsight normalizes the blob
NormalizeStep ==
  /\ pc = "decoded"
  /\ record' = Normalize(payload)
  /\ payload' = PayloadAfterNormalize(payload)
  /\ pc' = IF record'.raised THEN "normalizeRaised" ELSE "normalized"
  /\ UNCHANGED <<payload0, record2, out, out2, srv, calc>>

\* renderMarkup on the record the normalizer returned
RenderStep ==
  /\ pc = "normalized"
  /\ out' = RenderMarkup(record.rec)
  /\ pc' = IF out'.raised THEN "renderRaised" ELSE "rendered"
  /\ UNCHANGED <<payload, payload0, record, record2, out2, srv, calc>>

\* The same blob object is normalized a second time
NormalizeAgain ==
  /\ pc \in {"rendered", "renderRaised"}
  /\ record2' = Normalize(payload)
  /\ payload' = PayloadAfterNormalize(payload)
  /\ pc' = "renormalized"
  /\ UNCHANGED <<payload0, record, out, out2, srv, calc>>

\* The first record is rendered a second time
RenderAgain ==
  /\ pc = "renormalized"
  /\ out2' = RenderMarkup(record.rec)
  /\ pc' = "done"
  /\ UNCHANGED <<payload, payload0, record, record2, out, srv, calc>>

\* Messages handleMarkup passes to renderError
ErrorMessages ==
  {"Installation not found. Please reinstall the plugin.",
   "Could not load insight: kind.includes is not a function",
   "Could not load insight: PostHog returned 404 for https://us.posthog.com/shared/a'<b>&\"c\""}

\* renderError on a message of the caller
ErrorStep(m) ==
  /\ pc = "idle"
  /\ out' = RenderError(m)
  /\ pc' = "errorRendered"
  /\ UNCHANGED <<payload, payload0, record, record2, out2, srv, calc>>

PipeNext ==
  \/ \E p \in Payloads : Decode(p)
  \/ \E m \in ErrorMessages : ErrorStep(m)
  \/ NormalizeStep
  \/ RenderStep
  \/ NormalizeAgain
  \/ RenderAgain

NoResponse ==
  [got |-> None, response |-> [markup |-> NoOutput, refresh_rate |-> 0]]

NoUninstall == [status |-> 0, id |-> Undef]

SrvIdle ==
  /\ installations = <<>>
  /\ reqs = <<>>
  /\ sent = NoResponse
  /\ uninstalled = NoUninstall

NothingComputed ==
  [formatNumber |-> None, formatAxisNum |-> None, niceYAxis |-> None, evenlySpaced |-> None]

CalcIdle ==
  /\ operand = None
  /\ computed = NothingComputed

Init == PipeInit /\ SrvIdle /\ CalcIdle

Next == PipeNext

Spec == Init /\ [][Next]_vars

----------------------------------------------------------------------------
(* db.js: the installations table, rows in insertion order                 *)

Row(id, token, url) == [plugin_setting_id |-> id, access_token |-> token, posthog_url |-> url]

\* The rows a WHERE plugin_setting_id = ? selects (the key is unique)
RowsById(tbl, id) == SelectSeq(tbl, LAMBDA row : row.plugin_setting_id = id)

\* An upsert that writes the conflicting row afresh
UpsertInstallationReplacing(tbl, id, token) ==
  Append(SelectSeq(tbl, LAMBDA row : row.plugin_setting_id # id), Row(id, token, Null))

\* upsertInstallation(pluginSettingId, accessToken)
UpsertInstallation(tbl, id, token) ==
  IF RowsById(tbl, id) = <<>>
  THEN Append(tbl, Row(id, token, Null))
  ELSE [i \in DOMAIN tbl |->
          IF tbl[i].plugin_setting_id = id THEN [tbl[i] EXCEPT !.access_token = token]
          ELSE tbl[i]]

\* setPosthogUrl(pluginSettingId, posthogUrl)
SetPosthogUrl(tbl, id, url) ==
  [i \in DOMAIN tbl |->
     IF tbl[i].plugin_setting_id = id THEN [tbl[i] EXCEPT !.posthog_url = Str(url)]
     ELSE tbl[i]]

\* Statement.get(): <<the first row>>, or <<>> for undefined
FirstRow(rows) == IF rows = <<>> THEN <<>> ELSE <<rows[1]>>

\* getInstallation(pluginSettingId)
GetInstallation(tbl, id) == FirstRow(RowsById(tbl, id))

\* The DELETE matching its parameter against the access_token column
DeleteInstallationByToken(tbl, id) == SelectSeq(tbl, LAMBDA row : row.access_token # id)

\* deleteInstallation(pluginSettingId)
DeleteInstallation(tbl, id) == SelectSeq(tbl, LAMBDA row : row.plugin_setting_id # id)

\* getInstallationByToken(accessToken)
GetInstallationByToken(tbl, token) ==
  FirstRow(SelectSeq(tbl, LAMBDA row : row.access_token = token))

----------------------------------------------------------------------------
(* index.js: the handlers                                                  *)

\* 1-based position of the first occurrence of sub in s at or after i, or 0
FindFrom(s, sub, i) ==
  LET at == {j \in i..(Len(s) - Len(sub) + 1) : SubSeq(s, j, j + Len(sub) - 1) = sub}
  IN IF at = {} THEN 0 ELSE CHOOSE j \in at : \A k \in at : j <= k

RECURSIVE TrimStart(_)
TrimStart(s) ==
  IF s # "" /\ SubSeq(s, 1, 1) = " " THEN TrimStart(SubSeq(s, 2, Len(s))) ELSE s

RECURSIVE TrimEnd(_)
TrimEnd(s) ==
  IF s # "" /\ SubSeq(s, Len(s), Len(s)) = " " THEN TrimEnd(SubSeq(s, 1, Len(s) - 1)) ELSE s

\* String.prototype.trim
Trim(s) == TrimEnd(TrimStart(s))

\* auth.replace(/^Bearer\s+/i, '').trim()
BearerToken(authorization) ==
  LET auth == Or(authorization, Str("")).s
  IN IF Len(auth) >= 7 /\ ToUpperCase(SubSeq(auth, 1, 6)) = "BEARER" /\ SubSeq(auth, 7, 7) = " "
     THEN Trim(SubSeq(auth, 7, Len(auth)))
     ELSE Trim(auth)

\* new URL(text): protocol, hostname and pathname, or a TypeError
ParseUrl(text) ==
  LET p == FindFrom(text, "://", 1)
  IN IF p < 2 THEN [raised |-> TRUE]
     ELSE LET rest  == SubSeq(text, p + 3, Len(text))
              slash == FindFrom(rest, "/", 1)
              query == FindFrom(rest, "?", 1)
              stop  == IF slash = 0 /\ query = 0 THEN Len(rest) + 1
                       ELSE IF slash = 0 THEN query
                       ELSE IF query = 0 THEN slash
                       ELSE IF slash < query THEN slash ELSE query
              tail  == SubSeq(rest, stop, Len(rest))
              qpos  == FindFrom(tail, "?", 1)
              path  == IF qpos = 0 THEN tail ELSE SubSeq(tail, 1, qpos - 1)
          IN IF stop = 1 THEN [raised |-> TRUE]
             ELSE [raised   |-> FALSE,
                   protocol |-> SubSeq(text, 1, p - 1) \o ":",
                   hostname |-> SubSeq(rest, 1, stop - 1),
                   pathname |-> IF path = "" THEN "/" ELSE path]

TokenChars == "ABCDEFGHIJKLMNOPQRSTUVWXYZabcdefghijklmnopqrstuvwxyz0123456789_-"

\* pathname.match(/^\/shared\/[A-Za-z0-9_-]+/)
IsSharedPath(pathname) ==
  /\ StartsWith(pathname, "/shared/")
  /\ Len(pathname) >= 9
  /\ \E i \in 1..Len(TokenChars) : SubSeq(TokenChars, i, i) = SubSeq(pathname, 9, 9)

EndsWith(s, sub) == Len(s) >= Len(sub) /\ SubSeq(s, Len(s) - Len(sub) + 1, Len(s)) = sub

POSTHOG_CLOUD_HOSTS == {"us.posthog.com", "eu.posthog.com", "app.posthog.com"}

\* validatePosthogUrl(raw): the error text, or Null for a valid URL
ValidatePosthogUrl(raw) ==
  IF ~Truthy(raw) \/ ~IsString(raw) THEN Str("PostHog URL is required.")
  ELSE LET url == ParseUrl(Trim(raw.s))
       IN IF url.raised THEN Str("PostHog URL is not a valid URL.")
          ELSE IF url.protocol # "https:" THEN Str("PostHog URL must use HTTPS.")
          ELSE IF ~IsSharedPath(url.pathname)
          THEN Str("PostHog URL must include a /shared/<token> path. "
                   \o "In PostHog: open an insight " \o ARROW \o " Share " \o ARROW
                   \o " Copy link.")
          ELSE IF EndsWith(url.hostname, "posthog.com") /\ url.hostname \notin POSTHOG_CLOUD_HOSTS
          THEN Str("Unrecognised PostHog cloud host \"" \o url.hostname \o "\". "
                   \o "Expected us.posthog.com, eu.posthog.com, or app.posthog.com.")
          ELSE Null

RECURSIVE StripSlashes(_)
\* s.replace(/\/+$/, '')
StripSlashes(s) ==
  IF s # "" /\ SubSeq(s, Len(s), Len(s)) = "/" THEN StripSlashes(SubSeq(s, 1, Len(s) - 1))
  ELSE s

\* fetchInsight: shareUrl.split('?')[0].replace(/\/+$/, '')
CleanUrl(shareUrl) ==
  LET q == FindFrom(shareUrl, "?", 1)
  IN StripSlashes(IF q = 0 THEN shareUrl ELSE SubSeq(shareUrl, 1, q - 1))

\* The message of a TypeError raised inside the normalizer or the composer;
\* its text is the engine's
TypeErrorMessage == "TypeError"

\* fetchInsight's return: the normalizer's record, or its TypeError passed on
Parsed(r) ==
  IF r.raised THEN [raised |-> TRUE, message |-> TypeErrorMessage]
  ELSE [raised |-> FALSE, rec |-> r.rec]

\* fetchInsight(shareUrl), given what the network returns: the record, or the
\* message of the Error it throws
FetchInsight(shareUrl, reply) ==
  CASE reply.kind = "network" ->
         [raised |-> TRUE, message |-> "request to " \o CleanUrl(shareUrl) \o " failed"]
    [] reply.kind = "status" ->
         [raised |-> TRUE, message |-> "PostHog returned 404 for " \o CleanUrl(shareUrl)]
    [] reply.kind = "noData" ->
         [raised  |-> TRUE,
          message |-> "Could not find posthog-exported-data in page. "
                      \o "Make sure the insight is shared publicly."]
    [] reply.kind = "badJson" ->
         [raised  |-> TRUE,
          message |-> "Failed to parse posthog-exported-data JSON: Unexpected end of JSON input"]
    [] OTHER -> Parsed(Normalize(reply.data))

\* JSON.parse on the trmnl texts the model sends
JsonParse(text) ==
  CASE text = "{\"plugin_setting_id\":1}" ->
         [raised |-> FALSE, v |-> Obj([plugin_setting_id |-> Num(1)])]
    [] text = "{\"user\":{\"plugin_setting_id\":\"2\"}}" ->
         [raised |-> FALSE, v |-> Obj([user |-> Obj([plugin_setting_id |-> Str("2")])])]
    [] text = "{}" -> [raised |-> FALSE, v |-> Obj(<<>>)]
    [] OTHER -> [raised |-> TRUE]

\* handleMarkup: plugin_setting_id from the query, body.trmnl, the body, or
\* the Bearer token; Null when none resolves
ResolvePluginSettingId(req, tbl) ==
  LET fromQuery == Or(req.query_id, Null)
      parsed    == IF Truthy(req.trmnl) THEN JsonParse(req.trmnl.s) ELSE [raised |-> TRUE]
      inTrmnl   == IF parsed.raised THEN Null
                   ELSE Or(Or(Get(parsed.v, "plugin_setting_id"),
                              OptGet(Get(parsed.v, "user"), "plugin_setting_id")), Null)
      fromTrmnl == IF Truthy(inTrmnl) THEN Str(ToStringJS(inTrmnl)) ELSE inTrmnl
      fromBody  == IF ~Truthy(fromTrmnl) /\ Truthy(req.body_id)
                   THEN Str(ToStringJS(req.body_id)) ELSE fromTrmnl
      token     == BearerToken(req.authorization)
      inst      == GetInstallationByToken(tbl, token)
      fromToken == IF ~Truthy(fromBody) /\ Truthy(req.user_uuid) /\ token # "" /\ inst # <<>>
                   THEN Str(inst[1].plugin_setting_id) ELSE fromBody
  IN IF Truthy(fromQuery) THEN fromQuery ELSE fromToken

\* The JSON body of a /markup response
MarkupResponse(markup, refresh) ==
  [markup                 |-> markup,
   markup_half_vertical   |-> markup,
   markup_half_horizontal |-> markup,
   markup_quadrant        |-> markup,
   refresh_rate           |-> refresh]

\* The setup answer given as the error layout
NoConfigResponseAsError ==
  MarkupResponse(RenderError("Installation not found. Please reinstall the plugin."), 300)

\* handleMarkup: noConfigResponse
NoConfigResponse == MarkupResponse(RenderNoConfig, 300)

\* handleMarkup: the response carrying renderError(message)
ErrorResponse(message) == MarkupResponse(RenderError(message), 300)

\* The success response if it asked for the short refresh interval
InsightResponseShortRefresh(full) == MarkupResponse(full, 300)

\* handleMarkup: the response carrying the rendered insight
InsightResponse(full) == MarkupResponse(full, 1800)

\* handleMarkup: the success response, or the catch when renderMarkup threw
Composed(full) ==
  IF full.raised THEN ErrorResponse("Could not load insight: " \o TypeErrorMessage)
  ELSE InsightResponse(full)

\* The catch answering a failed fetch with the setup layout
FetchedFailureAsNoConfig(insight) ==
  IF insight.raised THEN NoConfigResponse
  ELSE Composed(RenderMarkup(insight.rec))

\* handleMarkup: renderMarkup on the fetched record, or the catch when
\* fetchInsight threw
Fetched(insight) ==
  IF insight.raised THEN ErrorResponse("Could not load insight: " \o insight.message)
  ELSE Composed(RenderMarkup(insight.rec))

\* The try block working from the URL stored now, read again after the await
MarkupOutcomeOfStoredUrl(shareUrl, reply) ==
  LET rows == SelectSeq(installations, LAMBDA row : Truthy(row.posthog_url))
  IN IF rows = <<>> THEN NoConfigResponse
     ELSE Fetched(FetchInsight(rows[1].posthog_url.s, reply))

\* handleMarkup after the lookup: the try block around fetchInsight and
\* renderMarkup, and its catch
MarkupOutcome(shareUrl, reply) == Fetched(FetchInsight(shareUrl, reply))

----------------------------------------------------------------------------
(* The server: installs, settings, uninstalls and /markup polls            *)

\* Number of /markup requests in flight at once
MaxReqs == 2

Ids == {"1", "2"}

Tokens == {"tokA", "tokB"}

UrlInputs ==
  {Undef,
   Str("us.posthog.com/shared/abc"),
   Str("http://us.posthog.com/shared/abc"),
   Str("https://us.posthog.com/dashboard/abc"),
   Str("https://evil.posthog.com/shared/abc"),
   Str(" https://us.posthog.com/shared/a-b_1/?x=1 ")}

MarkupReqs ==
  LET none == [query_id |-> Undef, trmnl |-> Undef, body_id |-> Undef, user_uuid |-> Undef,
               authorization |-> Undef]
  IN {none,
      [none EXCEPT !.query_id = Str("1")],
      [none EXCEPT !.query_id = Str("9")],
      [none EXCEPT !.trmnl = Str("{\"plugin_setting_id\":1}")],
      [none EXCEPT !.trmnl = Str("{\"user\":{\"plugin_setting_id\":\"2\"}}")],
      [none EXCEPT !.trmnl = Str("{oops"), !.body_id = Num(2)],
      [none EXCEPT !.trmnl = Str("{}"), !.user_uuid = Str("u-1"),
                   !.authorization = Str("bearer  tokA")],
      [none EXCEPT !.user_uuid = Str("u-1"), !.authorization = Str("Bearer tokB")],
      [none EXCEPT !.user_uuid = Str("u-1")]}

UninstallReqs ==
  {[plugin_setting_id |-> id, authorization |-> a] :
     id \in {Undef, Str("1")}, a \in {Undef, Str("Bearer tokA"), Str("Bearer tokB")}}

\* What the token endpoint answers to /install
TokenReplies ==
  {[ok |-> FALSE, data |-> Undef]}
  \cup {[ok |-> TRUE, data |-> Obj([access_token |-> Str(t), plugin_setting_id |-> Str(i)])] :
          t \in Tokens, i \in Ids}
  \cup {[ok |-> TRUE, data |-> Obj([access_token |-> Str("tokA"), id |-> Num(2)])],
        [ok |-> TRUE, data |-> Obj([plugin_setting_id |-> Str("1")])]}

\* What the shared page answers to fetchInsight
ServedPayloads ==
  {Obj([name |-> Str(Hostile), filters |-> Obj([insight |-> Str("FUNNEL")]),
        result |-> Arr(<<GoodItem, HostileItem>>)]),
   Obj([name |-> Str("Signups"), filters |-> Obj([display |-> Num(5)]), result |-> Arr(<<>>)]),
   Obj([name |-> Str("Signups"), query |-> Obj([kind |-> Num(5)]), result |-> Arr(<<>>)])}

FetchReplies ==
  {[kind |-> k, data |-> Undef] : k \in {"network", "status", "noData", "badJson"}}
  \cup {[kind |-> "page", data |-> p] : p \in ServedPayloads}

NewReq == [pc |-> "new", url |-> ""]

SrvInit ==
  /\ installations = <<>>
  /\ reqs = [r \in 1..MaxReqs |-> NewReq]
  /\ sent = NoResponse
  /\ uninstalled = NoUninstall

\* GET /install: the token exchange, then upsertInstallation
Install(reply) ==
  LET accessToken     == Get(reply.data, "access_token")
      pluginSettingId == Or(Get(reply.data, "plugin_setting_id"), Get(reply.data, "id"))
  IN /\ installations' =
          IF reply.ok /\ Truthy(accessToken) /\ Truthy(pluginSettingId)
          THEN UpsertInstallation(installations, ToStringJS(pluginSettingId),
                                  ToStringJS(accessToken))
          ELSE installations
     /\ UNCHANGED <<reqs, sent, uninstalled, pipe, calc>>

\* POST /settings, its answer: the status 400, the redirect carrying error=,
\* or the redirect carrying saved=1
SettingsAnswer(plugin_setting_id, posthog_url) ==
  IF ~Truthy(plugin_setting_id) THEN "400"
  ELSE IF ValidatePosthogUrl(posthog_url) # Null THEN "error"
  ELSE "saved"

\* POST /settings, the table it leaves
SettingsTable(tbl, plugin_setting_id, posthog_url) ==
  IF SettingsAnswer(plugin_setting_id, posthog_url) = "saved"
  THEN SetPosthogUrl(tbl, ToStringJS(plugin_setting_id), Trim(posthog_url.s))
  ELSE tbl

\* POST /settings
SaveSettings(plugin_setting_id, posthog_url) ==
  /\ installations' = SettingsTable(installations, plugin_setting_id, posthog_url)
  /\ UNCHANGED <<reqs, sent, uninstalled, pipe, calc>>

\* handleUninstall
Uninstall(req) ==
  LET token == BearerToken(req.authorization)
      inst  == GetInstallationByToken(installations, token)
      id    == IF Truthy(req.plugin_setting_id) THEN req.plugin_setting_id
               ELSE IF token # "" /\ inst # <<>> THEN Str(inst[1].plugin_setting_id)
               ELSE Undef
  IN /\ installations' =
          IF Truthy(id) THEN DeleteInstallation(installations, ToStringJS(id))
          ELSE installations
     /\ uninstalled' = [status |-> 200, id |-> id]
     /\ UNCHANGED <<reqs, sent, pipe, calc>>

\* handleMarkup up to its await: the id, the lookup, and either a response
\* or the request to the shared page
MarkupStart(r, req) ==
  LET id   == ResolvePluginSettingId(req, installations)
      inst == IF Truthy(id) THEN GetInstallation(installations, id.s) ELSE <<>>
      respond(resp) == sent' = [got |-> None, response |-> resp] /\ UNCHANGED reqs
  IN /\ reqs[r].pc = "new"
     /\ IF ~Truthy(id) THEN respond(NoConfigResponse)
        ELSE IF inst = <<>>
        THEN respond(ErrorResponse("Installation not found. Please reinstall the plugin."))
        ELSE IF ~Truthy(inst[1].posthog_url) THEN respond(NoConfigResponse)
        ELSE /\ reqs' = [reqs EXCEPT ![r] = [pc |-> "fetching", url |-> inst[1].posthog_url.s]]
             /\ UNCHANGED sent
     /\ UNCHANGED <<installations, uninstalled, pipe, calc>>

\* handleMarkup from the await on: the page arrives or the fetch fails, and
\* the response goes out
MarkupFinish(r, reply) ==
  /\ reqs[r].pc = "fetching"
  /\ sent' = [got |-> reply.data, response |-> MarkupOutcome(reqs[r].url, reply)]
  /\ reqs' = [reqs EXCEPT ![r] = NewReq]
  /\ UNCHANGED <<installations, uninstalled, pipe, calc>>

SrvNext ==
  \/ \E reply \in TokenReplies : Install(reply)
  \/ \E id \in {Undef} \cup {Str(i) : i \in Ids}, url \in UrlInputs : SaveSettings(id, url)
  \/ \E req \in UninstallReqs : Uninstall(req)
  \/ \E r \in 1..MaxReqs, req \in MarkupReqs : MarkupStart(r, req)
  \/ \E r \in 1..MaxReqs, reply \in FetchReplies : MarkupFinish(r, reply)

InitServer == PipeInit /\ SrvInit /\ CalcIdle

SpecServer == InitServer /\ [][SrvNext]_vars

----------------------------------------------------------------------------
(* The server polled for two configured installations                      *)

\* The shared pages of the two installations
PollUrls == <<"https://us.posthog.com/shared/a-b_1", "https://eu.posthog.com/shared/xyz/">>

\* The table a started server finds: both installations with their URLs
PollsInit ==
  /\ installations = <<Row("1", "tokA", Str(PollUrls[1])), Row("2", "tokB", Str(PollUrls[2]))>>
  /\ reqs = [r \in 1..MaxReqs |-> NewReq]
  /\ sent = NoResponse
  /\ uninstalled = NoUninstall

PollsNext ==
  \/ \E r \in 1..MaxReqs, req \in MarkupReqs : MarkupStart(r, req)
  \/ \E r \in 1..MaxReqs, reply \in FetchReplies : MarkupFinish(r, reply)
  \/ \E id \in Ids, k \in DOMAIN PollUrls : SaveSettings(Str(id), Str(PollUrls[k]))
  \/ \E req \in UninstallReqs : Uninstall(req)

InitPolls == PipeInit /\ PollsInit /\ CalcIdle

SpecPolls == InitPolls /\ [][PollsNext]_vars

----------------------------------------------------------------------------
(* The formatters and the axis scaler, one call at a time                  *)

\* Largest rawMax of the run of small integers the functions are called with
MaxRaw == 50

\* Numbers around the K and M thresholds and around the roundings to one decimal
ThresholdNumbers ==
  {-3, 99, 100, 999, 1000, 1001, 1049, 1050, 1500, 1949, 1950, 1999, 2000, 2500, 10000,
   12345, 999949, 999950, 999999, 1000000, 1049999, 1050000, 1500000, 2000000, 2500000}

Operands ==
  {Num(k) : k \in (0..MaxRaw) \cup ThresholdNumbers}
  \cup {Str("2000"), Str("abc"), Str(""), Null, Undef, NaN, Arr(<<>>), Obj(<<>>)}

CalcInit ==
  /\ operand \in Operands
  /\ computed = NothingComputed

\* formatNumber(operand), as the normalizer calls it
ApplyFormatNumber ==
  /\ computed.formatNumber = None
  /\ computed' = [computed EXCEPT !.formatNumber = Str(FormatNumber(operand))]
  /\ UNCHANGED <<operand, pipe, srv>>

\* formatAxisNum(operand), as the renderers call it
ApplyFormatAxisNum ==
  /\ computed.formatAxisNum = None
  /\ computed' = [computed EXCEPT !.formatAxisNum = Str(FormatAxisNum(operand))]
  /\ UNCHANGED <<operand, pipe, srv>>

\* Largest rawMax whose axis is computed (thousandths stay within 32 bits)
MaxAxisInput == 100000

\* niceYAxis(operand), called with the number Math.max returned
ApplyNiceYAxis ==
  /\ computed.niceYAxis = None
  /\ operand.t \in {"number", "NaN"}
  /\ operand.t = "number" => operand.n <= MaxAxisInput
  /\ computed' = [computed EXCEPT !.niceYAxis = NiceYAxis(operand)]
  /\ UNCHANGED <<operand, pipe, srv>>

\* evenlySpaced(n, Math.min(n, 6)) for a series of operand points, as the line
\* and bar charts call it
ApplyEvenlySpaced ==
  /\ computed.evenlySpaced = None
  /\ operand.t = "number" /\ operand.n >= 0
  /\ computed' = [computed EXCEPT !.evenlySpaced =
                    [idxs |-> EvenlySpaced(operand.n, IF operand.n < XLabels THEN operand.n
                                                      ELSE XLabels)]]
  /\ UNCHANGED <<operand, pipe, srv>>

CalcNext ==
  \/ ApplyFormatNumber
  \/ ApplyFormatAxisNum
  \/ ApplyNiceYAxis
  \/ ApplyEvenlySpaced

InitCalc == PipeInit /\ SrvIdle /\ CalcInit

SpecCalc == InitCalc /\ [][CalcNext]_vars

----------------------------------------------------------------------------
(* Properties of the normalizer and the composer, checked under Spec       *)

SixTypes ==
  {Str("TRENDS"), Str("FUNNEL"), Str("RETENTION"), Str("PATHS"), Str("LIFECYCLE"),
   Str("STICKINESS")}

Normalized == pc \in {"normalized", "rendered", "renderRaised", "renormalized", "done"}

Rendered == pc \in {"rendered", "renormalized", "done"} /\ ~out.raised

\* C1: for every raw payload, normalization returns a canonical record and
\* never raises to its caller.
C1_NormalizeNeverRaises == pc # "idle" /\ pc # "decoded" /\ pc # "errorRendered" => ~record.raised

\* C2: in every canonical record the normalizer returns, type is one of the
\* six enumerated kinds.
C2_TypeIsEnumerated == Normalized => record.rec.type \in SixTypes

\* C3: in every canonical record the normalizer returns, every series
\* entry's value is a finite number.
C3_SeriesValuesFinite ==
  Normalized => \A i \in DOMAIN record.rec.series : record.rec.series[i].value.t = "number"

\* The insight the record is built from: the blob, its envelope's insight, or
\* the first qualifying tile's insight (None for a dashboard without one).
WorkingInsight(data) ==
  LET p == Or(Get(data, "insight"), data)
  IN IF ~Truthy(Get(p, "tiles")) THEN p
     ELSE LET q == SelectSeq(Get(p, "tiles").a, TileQualifies)
          IN IF q = <<>> THEN None ELSE Get(q[1], "insight")

\* Nothing to extract: no qualifying tile, a result that is missing or not a
\* list, an empty list (of which PATHS still reports the count, 0), or a
\* funnel of fewer than two steps.
NoDataToExtract(data, type) ==
  \/ WorkingInsight(data) = None
  \/ ~IsArray(ResolveResult(WorkingInsight(data)))
  \/ ResolveResult(WorkingInsight(data)) = Arr(<<>>) /\ type # Str("PATHS")
  \/ type = Str("FUNNEL") /\ Len(ResolveResult(WorkingInsight(data)).a) < 2

\* C4: in every canonical record the normalizer returns, primaryValue is a
\* non-empty string, and it is the sentinel when no data could be extracted.
C4_PrimaryValuePopulated ==
  Normalized =>
    /\ IsString(record.rec.primaryValue)
    /\ record.rec.primaryValue.s # ""
    /\ NoDataToExtract(payload0, record.rec.type) => record.rec.primaryValue = Str(EMDASH)

\* A funnel with a single step: the gate is unmet and the sentinel stays.
C4_Witness ==
  /\ pc = "normalized"
  /\ record.rec.type = Str("FUNNEL")
  /\ IsArray(ResolveResult(payload0))
  /\ Len(ResolveResult(payload0).a) = 1
  /\ record.rec.primaryValue = Str(EMDASH)

\* C5: renderMarkup returns a markup string, without throwing, for every
\* canonical record the normalizer can return.
C5_RenderNeverThrows == pc # "renderRaised"

\* The display renderMarkup works with (its parameter default is '')
DisplayOf(rec) == IF rec.display = Undef THEN Str("") ELSE rec.display

\* C6: the chart renderer is the first match of: big-number display; pie
\* display with >= 2 slices; bar-family display with >= 2 points; type FUNNEL
\* with >= 2 steps; type PATHS with >= 1 entry; >= 2 points; else empty-state.
C6_RendererPrecedence ==
  Rendered =>
    LET d   == DisplayOf(record.rec)
        ty  == record.rec.type
        n   == Len(record.rec.series)
        big == d = Str("BoldNumber")
        pie == d = Str("ActionsPie")
        bar == IsBarDisplay(d)
    IN /\ out.chart \in {"bigNumber", "pie", "bar", "funnel", "paths", "line", "empty"}
       /\ out.chart = "bigNumber" <=> big
       /\ out.chart = "pie" <=> ~big /\ pie /\ n >= 2
       /\ out.chart = "bar" <=> ~big /\ bar /\ n >= 2
       /\ out.chart = "funnel" <=> ~big /\ ~pie /\ ~bar /\ ty = Str("FUNNEL") /\ n >= 2
       /\ out.chart = "paths" <=>
            ~big /\ ty = Str("PATHS") /\ n >= 1 /\ ~((pie \/ bar) /\ n >= 2)
       /\ out.chart = "line" <=>
            ~big /\ ~pie /\ ~bar /\ ty \notin {Str("FUNNEL"), Str("PATHS")} /\ n >= 2
       /\ out.chart = "empty" <=> ~big /\ (n = 0 \/ (n = 1 /\ ty # Str("PATHS")))

\* A funnel record with a bar display and two steps is drawn as a bar chart.
C6_Witness ==
  /\ pc = "rendered"
  /\ record.rec.type = Str("FUNNEL")
  /\ record.rec.display = Str("ActionsBar")
  /\ Len(record.rec.series) = 2
  /\ out.chart = "bar"

\* The record would be drawn by the line, bar, pie or funnel renderer if its
\* series were long enough.
WantsPointChart(rec) ==
  /\ DisplayOf(rec) # Str("BoldNumber")
  /\ \/ DisplayOf(rec) = Str("ActionsPie")
     \/ IsBarDisplay(DisplayOf(rec))
     \/ rec.type # Str("PATHS")

\* C7 as stated: with fewer than 2 series entries, a record that would
\* otherwise be drawn by the line, bar, pie or funnel renderer gets the
\* empty-state fragment.
C7_ShortSeriesIsEmptyState ==
  Rendered /\ Len(record.rec.series) < 2 /\ WantsPointChart(record.rec)
    => out.chart = "empty"

\* C7 as amended: ... gets the empty-state fragment, except that a PATHS
\* record with exactly one entry gets the ranked list.
C7_ShortSeriesEmptyOrPaths ==
  Rendered /\ Len(record.rec.series) < 2 /\ WantsPointChart(record.rec)
    => out.chart = IF record.rec.type = Str("PATHS") /\ Len(record.rec.series) = 1
                   THEN "paths" ELSE "empty"

\* A pie record with a single slice shows the empty-state fragment.
C7_Witness ==
  /\ pc = "rendered"
  /\ record.rec.display = Str("ActionsPie")
  /\ record.rec.type = Str("TRENDS")
  /\ Len(record.rec.series) = 1
  /\ out.chart = "empty"

EntityOf(c) ==
  CASE c = "&"  -> "&amp;"
    [] c = "<"  -> "&lt;"
    [] c = ">"  -> "&gt;"
    [] c = "\"" -> "&quot;"
    [] c = "'"  -> "&#39;"
    [] OTHER    -> c

RECURSIVE Escaped(_)
\* s with each reserved character replaced by its entity, in one pass
Escaped(s) ==
  IF Len(s) = 0 THEN ""
  ELSE IF Len(s) = 1 THEN EntityOf(s)
  ELSE LET h == Len(s) \div 2
       IN Escaped(SubSeq(s, 1, h)) \o Escaped(SubSeq(s, h + 1, Len(s)))

\* No reserved character is left in s other than the ampersand of an entity
NoRawReserved(s) ==
  \A i \in 1..Len(s) :
    LET c == SubSeq(s, i, i)
    IN /\ c \notin {"<", ">", "\"", "'"}
       /\ c = "&" => \E e \in {"&amp;", "&lt;", "&gt;", "&quot;", "&#39;"} : HasPrefixAt(s, e, i)

\* The numeric texts the templates interpolate without esc
NumericSlots == {"steppct", "legendpct", "stepwidth", "point", "bar"}

\* C8: every string taken from the payload or the caller reaches the output
\* of renderMarkup / renderError only after escaping, in every position.
C8_AllTextEscaped ==
  (Rendered \/ pc = "errorRendered") =>
    \A i \in DOMAIN out.frags :
      /\ NoRawReserved(out.frags[i].text)
      /\ out.frags[i].slot \notin NumericSlots
           => out.frags[i].text = Escaped(out.frags[i].raw)

\* The escaping example: a title with all five reserved characters, in both
\* of its positions.
C8_Witness ==
  /\ pc = "rendered"
  /\ record.rec.title = Str(Hostile)
  /\ \E i, j \in DOMAIN out.frags :
       /\ out.frags[i].slot = "title"
       /\ out.frags[j].slot = "footer"
       /\ out.frags[i].text = "&lt;script&gt;&amp;&quot;&#39;"
       /\ out.frags[j].text = "&lt;script&gt;&amp;&quot;&#39;"

TypeOfKindAnyCase(kind) ==
  LET upper == ToUpperCase(kind)
  IN IF Includes(upper, "FUNNEL") THEN "FUNNEL"
     ELSE IF Includes(upper, "RETENTION") THEN "RETENTION"
     ELSE IF Includes(upper, "PATH") THEN "PATHS"
     ELSE IF Includes(upper, "LIFECYCLE") THEN "LIFECYCLE"
     ELSE IF Includes(upper, "STICKINESS") THEN "STICKINESS"
     ELSE "TRENDS"

\* First match wins: the legacy filters.insight if present, else the query's
\* source.kind or kind string by substring, else TRENDS
FirstMatchType(insight) ==
  LET legacy == OptGet(Get(insight, "filters"), "insight")
      query  == Get(insight, "query")
      kind   == Or(OptGet(OptGet(query, "source"), "kind"), OptGet(query, "kind"))
  IN IF Truthy(legacy) THEN legacy
     ELSE IF IsString(kind) THEN Str(TypeOfKindAnyCase(kind.s))
     ELSE Str("TRENDS")

\* C17: the record's type is the first match of: the legacy filters.insight
\* string; else the query's source.kind or kind string matched in any letter
\* case on funnel, retention, path, lifecycle, stickiness (in that order);
\* else TRENDS.
C17_TypeFirstMatchAnyCase ==
  Normalized /\ WorkingInsight(payload0) # None
    => record.rec.type = FirstMatchType(WorkingInsight(payload0))

\* The dashboard the blob holds, directly or in its envelope (None otherwise)
DashboardOf(data) ==
  LET p == Or(Get(data, "insight"), data)
  IN IF Truthy(Get(p, "tiles")) THEN p ELSE None

\* The tile's nested insight has a result that is not null
HasNonNullResult(t) ==
  /\ Truthy(Get(t, "insight"))
  /\ ResolveResult(Get(t, "insight")) \notin {Undef, Null}

\* The tile's nested insight has a result that is truthy
HasTruthyResult(t) ==
  /\ Truthy(Get(t, "insight"))
  /\ Truthy(ResolveResult(Get(t, "insight")))

\* rec is the empty record under the dashboard's title
IsEmptyRecord(rec, dashboard) ==
  /\ rec.primaryValue = Str(EMDASH)
  /\ rec.secondaryLabel = Str("")
  /\ rec.series = <<>>
  /\ rec.title = Or(Get(dashboard, "name"), Str("PostHog Dashboard"))

\* rec is the normalization of the tile's insight, titled by the insight and
\* falling back to the dashboard's title
IsRecordOfTile(rec, t, dashboard) ==
  LET insight == Get(t, "insight")
      title   == Or(Or(Get(insight, "name"), Get(insight, "derived_name")),
                    Or(Get(dashboard, "name"), Str("PostHog Dashboard")))
  IN rec = ParseInsightData(title, insight).rec

\* C18 as stated: for a dashboard, the record is that of the first tile whose
\* nested insight has a non-null result, and the empty record under the
\* dashboard's title when no tile has one.
C18_FirstTileWithNonNullResult ==
  Normalized /\ DashboardOf(payload0) # None =>
    LET dashboard == DashboardOf(payload0)
        tiles     == Get(dashboard, "tiles").a
    IN IF \A i \in DOMAIN tiles : ~HasNonNullResult(tiles[i])
       THEN IsEmptyRecord(record.rec, dashboard)
       ELSE \E i \in DOMAIN tiles :
              /\ HasNonNullResult(tiles[i])
              /\ \A j \in 1..(i - 1) : ~HasNonNullResult(tiles[j])
              /\ IsRecordOfTile(record.rec, tiles[i], dashboard)

\* C18 as amended: ... the first tile whose nested insight has a truthy
\* result (a result of 0, "" or false does not qualify), and the empty record
\* under the dashboard's title when no tile has one.
C18_FirstTileWithTruthyResult ==
  Normalized /\ DashboardOf(payload0) # None =>
    LET dashboard == DashboardOf(payload0)
        tiles     == Get(dashboard, "tiles").a
    IN IF \A i \in DOMAIN tiles : ~HasTruthyResult(tiles[i])
       THEN IsEmptyRecord(record.rec, dashboard)
       ELSE \E i \in DOMAIN tiles :
              /\ HasTruthyResult(tiles[i])
              /\ \A j \in 1..(i - 1) : ~HasTruthyResult(tiles[j])
              /\ IsRecordOfTile(record.rec, tiles[i], dashboard)

\* A dashboard whose first tile has the result 0 and whose second tile is a
\* funnel: the record is the funnel's, under the funnel's title.
C18_Witness ==
  /\ pc = "normalized"
  /\ DashboardOf(payload0) # None
  /\ Len(Get(DashboardOf(payload0), "tiles").a) = 2
  /\ Get(Get(Get(DashboardOf(payload0), "tiles").a[1], "insight"), "result") = Num(0)
  /\ record.rec.type = Str("FUNNEL")
  /\ record.rec.title = Str(Hostile)

\* The tenths a scaled text stands for: "2" is 20, "1.5" is 15; -1 if the
\* text is neither an integer nor a number with one decimal
TenthsOf(text) ==
  LET dot == FindFrom(text, ".", 1)
  IN IF text # "" /\ AllDigits(text) THEN 10 * DigitsVal(text, 0)
     ELSE IF /\ dot >= 2
             /\ dot = Len(text) - 1
             /\ AllDigits(SubSeq(text, 1, dot - 1))
             /\ IsDigit(SubSeq(text, Len(text), Len(text)))
     THEN 10 * DigitsVal(SubSeq(text, 1, dot - 1), 0) + DigitVal(SubSeq(text, Len(text), Len(text)))
     ELSE -1

\* v is a count: a number that is not negative
IsCount(v) == v.t = "number" /\ v.n >= 0

\* text is last / first * 100 to the nearest tenth, with one decimal
IsRateOf(text, last, first) ==
  LET tenths == TenthsOf(text)
      diff   == 1000 * last - tenths * first
  IN /\ FindFrom(text, ".", 1) = Len(text) - 1
     /\ tenths >= 0
     /\ 2 * diff <= first /\ -2 * diff <= first

\* The counts of the steps, in step order
StepCounts(steps) == [i \in DOMAIN steps |-> Get(steps[i], "count")]

\* C19: for a FUNNEL result of at least 2 steps the conversion rate is the
\* last step's count over the first step's count, times 100, rounded to one
\* decimal ("25.0" for the counts 100, 100, 25), or exactly "0" when the first
\* count is zero, and the series has one entry per step, in step order, with
\* the step's name and count; with fewer than 2 steps primaryValue stays the
\* sentinel and the series stays empty.
C19_FunnelRateAndSeries ==
  /\ Normalized /\ record.rec.type = Str("FUNNEL") /\ WorkingInsight(payload0) # None
       /\ IsArray(ResolveResult(WorkingInsight(payload0)))
       /\ StepCounts(ResolveResult(WorkingInsight(payload0)).a) = <<Num(100), Num(100), Num(25)>>
       => record.rec.primaryValue = Str("25.0%")
  /\ Normalized /\ record.rec.type = Str("FUNNEL") /\ WorkingInsight(payload0) # None
       /\ IsArray(ResolveResult(WorkingInsight(payload0)))
       /\ ~AnyNullish(ResolveResult(WorkingInsight(payload0)).a)
       => LET steps == ResolveResult(WorkingInsight(payload0)).a
              first == IF steps = <<>> THEN Undef ELSE Get(steps[1], "count")
              last  == IF steps = <<>> THEN Undef ELSE Get(steps[Len(steps)], "count")
              pv    == record.rec.primaryValue.s
          IN IF Len(steps) < 2
             THEN record.rec.primaryValue = Str(EMDASH) /\ record.rec.series = <<>>
             ELSE /\ Len(record.rec.series) = Len(steps)
                  /\ \A i \in DOMAIN steps :
                       /\ record.rec.series[i].label = Get(steps[i], "name")
                       /\ record.rec.series[i].value = Get(steps[i], "count")
                  /\ IsCount(first) /\ IsCount(last) =>
                       /\ Len(pv) >= 2 /\ SubSeq(pv, Len(pv), Len(pv)) = "%"
                       /\ IF first.n = 0 THEN SubSeq(pv, 1, Len(pv) - 1) = "0"
                          ELSE IsRateOf(SubSeq(pv, 1, Len(pv) - 1), last.n, first.n)

\* The funnel with the counts 100, 100, 25: the headline is 25.0% and the
\* series holds the three steps in order.
C19_Witness ==
  /\ pc = "normalized"
  /\ payload0 \in FunnelPayloads
  /\ record.rec.primaryValue = Str("25.0%")
  /\ Len(record.rec.series) = 3
  /\ record.rec.series[1] = [label |-> Str("Step 1"), value |-> Num(100)]
  /\ record.rec.series[3] = [label |-> Str("Step 3"), value |-> Num(25)]

\* v is count / day0 * 100 to the nearest integer
IsPctOf(v, count, day0) ==
  /\ v.t = "number" /\ v.n >= 0
  /\ 2 * (100 * count - v.n * day0) <= day0
  /\ 2 * (v.n * day0 - 100 * count) <= day0

\* The days of a cohort: its values list, empty when it has none
DaysOf(cohort) ==
  IF IsNullish(Get(cohort, "values")) THEN <<>> ELSE Get(cohort, "values").a

\* The cohort is an object whose values, if any, are a list of objects
IsCohort(cohort) ==
  /\ cohort.t = "object"
  /\ \/ IsNullish(Get(cohort, "values"))
     \/ /\ IsArray(Get(cohort, "values"))
        /\ \A i \in DOMAIN Get(cohort, "values").a : Get(cohort, "values").a[i].t = "object"

\* C20: for a RETENTION result of at least 1 cohort only the first cohort
\* is used: the series has one entry per day offset i, labelled "Day i", whose
\* value is round(count_i / day0Count * 100), or 0 for every entry when
\* day0Count is 0 or absent; with at least 2 days primaryValue is the Day 1
\* percentage followed by "%" and secondaryLabel is "Day 1 retention",
\* otherwise primaryValue is the formatted day-0 count and secondaryLabel is
\* "Retained (Day 0)"; the counts 100, 40, 10 give the values 100, 40, 10 and
\* the primary "40%".
C20_RetentionFirstCohort ==
  Normalized /\ record.rec.type = Str("RETENTION") /\ WorkingInsight(payload0) # None
    /\ IsArray(ResolveResult(WorkingInsight(payload0)))
    /\ ResolveResult(WorkingInsight(payload0)).a # <<>>
    /\ IsCohort(ResolveResult(WorkingInsight(payload0)).a[1])
    => LET days   == DaysOf(ResolveResult(WorkingInsight(payload0)).a[1])
           day0   == IF days = <<>> THEN Undef ELSE Get(days[1], "count")
           series == record.rec.series
       IN /\ Len(series) = Len(days)
          /\ \A i \in DOMAIN days :
               /\ series[i].label = Str("Day " \o ToString(i - 1))
               /\ day0 \in {Undef, Num(0)} => series[i].value = Num(0)
               /\ IsCount(day0) /\ day0.n > 0 /\ IsCount(Get(days[i], "count"))
                    => IsPctOf(series[i].value, Get(days[i], "count").n, day0.n)
          /\ IF Len(days) >= 2
             THEN /\ record.rec.secondaryLabel = Str("Day 1 retention")
                  /\ series[2].value.t = "number"
                       => record.rec.primaryValue = Str(ToString(series[2].value.n) \o "%")
             ELSE /\ record.rec.secondaryLabel = Str("Retained (Day 0)")
                  /\ IsCount(day0) => record.rec.primaryValue = Str(FormatNumber(day0))
          /\ [i \in DOMAIN days |-> Get(days[i], "count")] = <<Num(100), Num(40), Num(10)>>
               => /\ [i \in DOMAIN series |-> series[i].value] = <<Num(100), Num(40), Num(10)>>
                  /\ record.rec.primaryValue = Str("40%")

\* A first cohort of the counts 3, 2, 1 followed by a second cohort: the
\* series is 100, 67, 33 under "Day 0" to "Day 2" and the headline is the
\* Day 1 percentage.
C20_Witness ==
  /\ pc = "normalized"
  /\ payload0 \in RetentionPayloads
  /\ Len(Get(payload0, "result").a) = 2
  /\ record.rec.series = <<[label |-> Str("Day 0"), value |-> Num(100)],
                           [label |-> Str("Day 1"), value |-> Num(67)],
                           [label |-> Str("Day 2"), value |-> Num(33)]>>
  /\ record.rec.primaryValue = Str("67%")
  /\ record.rec.secondaryLabel = Str("Day 1 retention")

\* The edge has both endpoints: neither is missing or empty
HasBothEnds(p) == Truthy(Get(p, "source")) /\ Truthy(Get(p, "target"))

\* The weight of an edge: edge_weight, else count, else 0
WeightOfEdge(p) ==
  IF Truthy(Get(p, "edge_weight")) THEN Get(p, "edge_weight")
  ELSE IF Truthy(Get(p, "count")) THEN Get(p, "count")
  ELSE Num(0)

\* The series entry of an edge
EntryOfEdge(p) ==
  [label |-> Str(ToStringJS(Get(p, "source")) \o " " \o ARROW \o " "
                 \o ToStringJS(Get(p, "target"))),
   value |-> WeightOfEdge(p)]

\* How many members of the sequence equal e
Occurrences(seq, e) == Cardinality({i \in DOMAIN seq : seq[i] = e})

\* C21: for a PATHS result the series holds only edges with both source
\* and target, by weight (edge_weight, else count) descending, cut to the
\* first 6: its length is min(6, number of qualifying edges), its values never
\* increase (and strictly decrease when the weights are distinct; 8 distinct
\* edges give 6 entries), each label is "source -> target" with the arrow
\* character, and primaryValue is the formatted count of all the edges,
\* qualifying or not.
C21_PathsTopSix ==
  Normalized /\ record.rec.type = Str("PATHS") /\ WorkingInsight(payload0) # None
    /\ IsArray(ResolveResult(WorkingInsight(payload0)))
    /\ (\A e \in DOMAIN ResolveResult(WorkingInsight(payload0)).a :
          /\ ResolveResult(WorkingInsight(payload0)).a[e].t = "object"
          /\ WeightOfEdge(ResolveResult(WorkingInsight(payload0)).a[e]).t = "number")
    => LET edges   == ResolveResult(WorkingInsight(payload0)).a
           entries == [i \in DOMAIN edges |-> EntryOfEdge(edges[i])]
           qual    == {i \in DOMAIN edges : HasBothEnds(edges[i])}
           series  == record.rec.series
       IN /\ record.rec.primaryValue = Str(FormatNumber(Num(Len(edges))))
          /\ Len(series) = IF Cardinality(qual) < 6 THEN Cardinality(qual) ELSE 6
          /\ \A i \in DOMAIN series :
               /\ \E j \in qual : series[i] = entries[j]
               /\ Occurrences(series, series[i])
                    <= Cardinality({j \in qual : entries[j] = series[i]})
          /\ \A i \in 1..(Len(series) - 1) : series[i].value.n >= series[i + 1].value.n
          /\ (\A j, k \in qual : j # k => entries[j].value # entries[k].value)
               => \A i \in 1..(Len(series) - 1) : series[i].value.n > series[i + 1].value.n
          /\ \A j \in qual :
               series # <<>> /\ entries[j].value.n > series[Len(series)].value.n
                 => Occurrences(series, entries[j])
                      = Cardinality({k \in qual : entries[k] = entries[j]})

\* Eight edges, every second one weighted by its count and the third without
\* a target: the headline counts all 8, the series holds the 6 heaviest of
\* the 7 qualifying edges, in strictly descending order.
C21_Witness ==
  /\ pc = "normalized"
  /\ payload0 \in PathsPayloads
  /\ Len(Get(payload0, "result").a) = 8
  /\ \E i \in 1..8 : ~HasBothEnds(Get(payload0, "result").a[i])
  /\ record.rec.primaryValue = Str("8")
  /\ Len(record.rec.series) = 6
  /\ \A i \in 1..5 : record.rec.series[i].value.n > record.rec.series[i + 1].value.n
  /\ \E i \in 1..6 : record.rec.series[i].label = Str(Hostile \o " " \o ARROW \o " /t2")

\* The types whose result is a list of series items
SeriesTypes == {Str("TRENDS"), Str("LIFECYCLE"), Str("STICKINESS")}

\* The x position, in tenths, a point or bar fragment is drawn at
DrawnX(frag) == TenthsOf(SubSeq(frag.text, 1, FindFrom(frag.text, ",", 1) - 1))

\* The point or bar fragments of a rendering, in the order they are drawn
DrawnPoints(frags) == SelectSeq(frags, LAMBDA f : f.slot \in {"point", "bar"})

\* The list under key k of a series item, empty when the item has none
ListOf(item, k) == IF IsArray(Get(item, k)) THEN Get(item, k).a ELSE <<>>

\* C22: for TRENDS / LIFECYCLE / STICKINESS with a bar-family or default
\* display and a non-empty result list only the first series item is used and
\* the series is the zip of its data with its labels in the original order:
\* one entry per data point, entry i with the value data[i] and the label
\* labels[i] (the empty string when it is missing); and that order is the
\* left-to-right order of the points (or bars) the renderer draws.
C22_FirstItemZippedInOrder ==
  Normalized /\ record.rec.type \in SeriesTypes /\ WorkingInsight(payload0) # None
    /\ IsString(DisplayOf(record.rec))
    /\ DisplayOf(record.rec) \notin {Str("BoldNumber"), Str("ActionsPie")}
    /\ IsArray(ResolveResult(WorkingInsight(payload0)))
    /\ ResolveResult(WorkingInsight(payload0)).a # <<>>
    /\ ResolveResult(WorkingInsight(payload0)).a[1].t = "object"
    /\ Get(ResolveResult(WorkingInsight(payload0)).a[1], "data").t \in {"array", "undefined"}
    => LET first  == ResolveResult(WorkingInsight(payload0)).a[1]
           data   == ListOf(first, "data")
           labels == ListOf(first, "labels")
           series == record.rec.series
           drawn  == DrawnPoints(out.frags)
       IN /\ Len(series) = Len(data)
          /\ \A i \in DOMAIN data :
               /\ series[i].value = data[i]
               /\ i \in DOMAIN labels /\ ~IsNullish(labels[i]) => series[i].label = labels[i]
               /\ i \notin DOMAIN labels => series[i].label = Str("")
          /\ Rendered /\ Len(series) >= 2 =>
               /\ out.chart \in {"line", "bar"}
               /\ Len(drawn) = Len(data)
               /\ \A i \in DOMAIN drawn : drawn[i].raw = ToStringJS(data[i])
               /\ \A i \in 1..(Len(drawn) - 1) :
                    DrawnX(drawn[i]) >= 0 /\ DrawnX(drawn[i]) < DrawnX(drawn[i + 1])

\* A result of two series items whose first has 8 data points and 7 labels:
\* the series has the 8 points of the first item, the last one labelled with
\* the empty string, and the line chart draws 8 points from x = 52 to x = 752.
C22_Witness ==
  /\ pc = "rendered"
  /\ record.rec.type = Str("TRENDS")
  /\ out.chart = "line"
  /\ WorkingInsight(payload0) # None
  /\ IsArray(ResolveResult(WorkingInsight(payload0)))
  /\ Len(ResolveResult(WorkingInsight(payload0)).a) = 2
  /\ Len(record.rec.series) = 8
  /\ record.rec.series[1] = [label |-> Str(Hostile), value |-> Num(1500)]
  /\ record.rec.series[8] = [label |-> Str(""), value |-> Num(2)]
  /\ Len(DrawnPoints(out.frags)) = 8
  /\ DrawnX(DrawnPoints(out.frags)[1]) = 520
  /\ DrawnX(DrawnPoints(out.frags)[8]) = 7520

RECURSIVE SumOf(_)
\* The sum of a list of numbers
SumOf(nums) == IF nums = <<>> THEN 0 ELSE Head(nums).n + SumOf(Tail(nums))

\* The item has a count that is a number, or no count and, if any data, a
\* list of numbers
HasTotal(item) ==
  /\ item.t = "object"
  /\ \/ IsCount(Get(item, "count"))
     \/ /\ IsNullish(Get(item, "count"))
        /\ Get(item, "data").t \in {"array", "undefined"}
        /\ \A i \in DOMAIN ListOf(item, "data") : IsCount(ListOf(item, "data")[i])

\* The count of the item if present, else the sum of its data
TotalOf(item) ==
  IF ~IsNullish(Get(item, "count")) THEN Get(item, "count").n
  ELSE SumOf(ListOf(item, "data"))

\* C23: for TRENDS / LIFECYCLE / STICKINESS with the big-number display
\* and a non-empty result list primaryValue is the compact format of the sum
\* over all the series items of (count if present, else the sum of data),
\* secondaryLabel is the first item's label, and series is left empty; the
\* composer then draws the big-number layout for it, although series is empty.
C23_BigNumberSumsAllItems ==
  Normalized /\ record.rec.type \in SeriesTypes /\ WorkingInsight(payload0) # None
    /\ DisplayOf(record.rec) = Str("BoldNumber")
    /\ IsArray(ResolveResult(WorkingInsight(payload0)))
    /\ ResolveResult(WorkingInsight(payload0)).a # <<>>
    /\ (\A e \in DOMAIN ResolveResult(WorkingInsight(payload0)).a :
          HasTotal(ResolveResult(WorkingInsight(payload0)).a[e]))
    => LET items == ResolveResult(WorkingInsight(payload0)).a
           total == SumOf([i \in DOMAIN items |-> Num(TotalOf(items[i]))])
       IN /\ record.rec.primaryValue = Str(FormatNumber(Num(total)))
          /\ IsString(Get(items[1], "label")) => record.rec.secondaryLabel = Get(items[1], "label")
          /\ record.rec.series = <<>>
          /\ Rendered =>
               /\ out.chart = "bigNumber"
               /\ \E i \in DOMAIN out.frags :
                    /\ out.frags[i].slot = "primary"
                    /\ out.frags[i].raw = FormatNumber(Num(total))

\* Three items, 1200 by count, 345 by data and 0 by a count of 0: the big
\* number is 1.5K under the first item's label.
C23_Witness ==
  /\ pc = "rendered"
  /\ payload0 \in BigNumberPayloads
  /\ Len(Get(payload0, "result").a) = 3
  /\ record.rec.primaryValue = Str("1.5K")
  /\ record.rec.secondaryLabel = Str("Visits")
  /\ record.rec.series = <<>>
  /\ out.chart = "bigNumber"

\* The widths of the funnel's bars, in step order
StepWidths(frags) == SelectSeq(frags, LAMBDA f : f.slot = "stepwidth")

\* tenths is value / first * 480 to the nearest tenth
IsWidthOf(tenths, value, first) ==
  /\ 2 * (10 * BarMaxW * value - tenths * first) <= first
  /\ 2 * (tenths * first - 10 * BarMaxW * value) <= first

\* C30: in the funnel renderer, every step's bar width is
\* step.value / firstStep.value x 480 and lies between 0 and the maximum bar
\* width 480 inclusive, for every series of >= 2 steps with non-negative
\* values, including a first step of 0 and a later step larger than the first.
C30_FunnelBarWidthBounded ==
  Rendered /\ out.chart = "funnel"
    /\ (\A i \in DOMAIN record.rec.series : IsCount(record.rec.series[i].value))
    => LET series == record.rec.series
           widths == StepWidths(out.frags)
       IN /\ Len(widths) = Len(series)
          /\ \A i \in DOMAIN widths :
               LET tenths == TenthsOf(widths[i].text)
               IN /\ 0 <= tenths /\ tenths <= 10 * BarMaxW
                  /\ series[1].value.n > 0 =>
                       IsWidthOf(tenths, series[i].value.n, series[1].value.n)

----------------------------------------------------------------------------
(* Properties of the /markup handler, checked under SpecServer             *)

\* The response was built from a page that normalizes and renders without a
\* raise
FetchedAndRendered ==
  /\ sent.got \notin {None, Undef}
  /\ ~Normalize(sent.got).raised
  /\ ~RenderMarkup(Normalize(sent.got).rec).raised

\* C10: every /markup response carries the same markup in all four layout
\* slots with a numeric refresh_rate, which is 1800 exactly when an insight
\* was fetched and rendered and 300 in every other outcome.
C10_FourSlotsAndRefreshRate ==
  sent # NoResponse =>
    LET resp == sent.response
    IN /\ DOMAIN resp = {"markup", "markup_half_vertical", "markup_half_horizontal",
                         "markup_quadrant", "refresh_rate"}
       /\ resp.markup_half_vertical = resp.markup
       /\ resp.markup_half_horizontal = resp.markup
       /\ resp.markup_quadrant = resp.markup
       /\ resp.refresh_rate \in {300, 1800}
       /\ resp.refresh_rate = 1800 <=> FetchedAndRendered
       /\ FetchedAndRendered => resp.markup = RenderMarkup(Normalize(sent.got).rec)
       /\ ~FetchedAndRendered => resp.markup.chart \in {"error", "noConfig"}

\* A poll is answered with the rendered funnel at 1800 while another is
\* still waiting for its page.
C10_Witness ==
  /\ sent.response.refresh_rate = 1800
  /\ sent.response.markup.chart = "funnel"
  /\ \E r \in DOMAIN reqs : reqs[r].pc = "fetching"

\* The handler invocation in slot r returned after a fetch that brought no
\* page: the request failed, the status was not OK, the data block was
\* missing, or its JSON did not decode.
FetchFailedIn(r) ==
  /\ reqs[r].pc = "fetching"
  /\ reqs'[r] # reqs[r]
  /\ sent'.got = Undef

\* The response carries the error layout with a "Could not load insight" message
IsLoadError(resp) ==
  /\ resp.markup.chart = "error"
  /\ ~resp.markup.raised
  /\ \E i \in DOMAIN resp.markup.frags :
       /\ resp.markup.frags[i].slot = "message"
       /\ StartsWith(resp.markup.frags[i].raw, "Could not load insight: ")

\* C11: when the fetch of the payload fails, the /markup handler answers that
\* request with the error layout carrying a "Could not load insight" message,
\* returns without fetching again, and leaves the stored installations as
\* they were; the handler always answers.
C11_FetchFailureAnswered ==
  [][\A r \in DOMAIN reqs :
       FetchFailedIn(r) =>
         /\ IsLoadError(sent'.response)
         /\ sent'.response.refresh_rate = 300
         /\ reqs'[r] = NewReq
         /\ installations' = installations]_vars

\* A 404 from the shared page was answered with the error layout while the
\* installation is still stored with its URL.
C11_Witness ==
  /\ sent.got = Undef
  /\ IsLoadError(sent.response)
  /\ \E i \in DOMAIN sent.response.markup.frags :
       sent.response.markup.frags[i].raw =
         "Could not load insight: PostHog returned 404 for https://us.posthog.com/shared/a-b_1"
  /\ \E i \in DOMAIN installations : Truthy(installations[i].posthog_url)

\* The response carries the error layout with the "Installation not found" message
IsNotFound(resp) ==
  /\ resp.markup.chart = "error"
  /\ resp.refresh_rate = 300
  /\ \E i \in DOMAIN resp.markup.frags :
       /\ resp.markup.frags[i].slot = "message"
       /\ resp.markup.frags[i].raw = "Installation not found. Please reinstall the plugin."

\* The step is an /uninstall that answered anew or removed a row
UninstallAnswered ==
  uninstalled' # uninstalled \/ Len(installations') < Len(installations)

\* C12: /uninstall always answers 200; when it identified an installation
\* (by plugin_setting_id, else by Bearer token) that row, and no other, is
\* gone; a row that is gone comes back only by an install of its id; and a
\* /markup request naming an id whose row is gone is answered with the
\* "Installation not found" error layout.
C12_UninstallDeletes ==
  [][/\ UninstallAnswered =>
          /\ uninstalled'.status = 200
          /\ \A i \in Ids :
               GetInstallation(installations', i) =
                 IF Truthy(uninstalled'.id) /\ ToStringJS(uninstalled'.id) = i THEN <<>>
                 ELSE GetInstallation(installations, i)
     /\ \A i \in Ids :
          GetInstallation(installations, i) = <<>> /\ GetInstallation(installations', i) # <<>>
            => \E reply \in TokenReplies :
                 /\ Install(reply)
                 /\ ToStringJS(Or(Get(reply.data, "plugin_setting_id"), Get(reply.data, "id"))) = i
     /\ reqs' = reqs /\ sent' # sent =>
          \A req \in MarkupReqs :
            LET id == ResolvePluginSettingId(req, installations)
            IN /\ Truthy(id)
               /\ GetInstallation(installations, id.s) = <<>>
               /\ \E r \in DOMAIN reqs : MarkupStart(r, req)
               => IsNotFound(sent'.response)]_vars

\* Installation 2 was identified by its Bearer token and removed, installation
\* 1 is still stored, and a poll was answered "Installation not found".
C12_Witness ==
  /\ uninstalled = [status |-> 200, id |-> Str("2")]
  /\ GetInstallation(installations, "2") = <<>>
  /\ GetInstallation(installations, "1") # <<>>
  /\ IsNotFound(sent.response)

\* The response carries the no-configuration layout
IsNoConfig(resp) ==
  /\ resp.markup.chart = "noConfig"
  /\ \E i \in DOMAIN resp.markup.frags : resp.markup.frags[i].raw = "Setup required"

\* The row stored for the id a request resolved to: <<>> when it resolved to
\* none or none is stored
RowOf(id) ==
  IF Truthy(id) THEN GetInstallation(installations, ToStringJS(id)) ELSE <<>>

\* The handler invocation in slot r went to the shared page in this step
FetchAttemptedIn(r) == reqs[r].pc = "new" /\ reqs'[r].pc = "fetching"

\* C25: the /markup handler decides in this order: no plugin_setting_id
\* resolvable from the query, the trmnl body blob, the body field or the Bearer
\* token: the no-configuration layout; an id but no installation stored: the
\* error layout "Installation not found"; an installation stored without a
\* posthog_url: the no-configuration layout; otherwise the fetch and the
\* rendering.  The fetch is attempted only when an installation with a
\* non-empty posthog_url exists at the time of the lookup.  (Of every step
\* that answers before a fetch or starts one, and every request: the step is
\* as the request's case prescribes, or it is not the handling of that
\* request.)
C25_MarkupDecisionOrder ==
  [][/\ \/ reqs' = reqs /\ sent'.got = None /\ sent' # sent
        \/ \E r \in DOMAIN reqs : FetchAttemptedIn(r)
        => \A req \in MarkupReqs :
             \/ LET id  == ResolvePluginSettingId(req, installations)
                    row == RowOf(id)
                IN IF ~Truthy(id)
                   THEN IsNoConfig(sent'.response) /\ reqs' = reqs
                   ELSE IF row = <<>>
                   THEN IsNotFound(sent'.response) /\ reqs' = reqs
                   ELSE IF ~Truthy(row[1].posthog_url)
                   THEN IsNoConfig(sent'.response) /\ reqs' = reqs
                   ELSE /\ sent' = sent
                        /\ \E r \in DOMAIN reqs :
                             /\ FetchAttemptedIn(r)
                             /\ reqs'[r].url = row[1].posthog_url.s
             \/ ~(\E r \in DOMAIN reqs :
                    /\ reqs[r].pc = "new"
                    /\ reqs' = reqs \/ reqs'[r] # reqs[r]
                    /\ MarkupStart(r, req))
     /\ \A r \in DOMAIN reqs :
          FetchAttemptedIn(r) =>
            \E i \in DOMAIN installations :
              /\ IsString(installations[i].posthog_url)
              /\ installations[i].posthog_url.s # ""
              /\ reqs'[r].url = installations[i].posthog_url.s]_vars

\* One request is at its fetch for an installation with a URL while the
\* latest answer was "Installation not found" and another installation is
\* stored without a URL.
C25_Witness ==
  /\ \E r \in DOMAIN reqs : reqs[r].pc = "fetching"
  /\ IsNotFound(sent.response)
  /\ \E i \in DOMAIN installations : ~Truthy(installations[i].posthog_url)
  /\ \E i \in DOMAIN installations : Truthy(installations[i].posthog_url)

\* C27: whenever POST /settings answers with the saved=1 redirect for a
\* plugin_setting_id, the trimmed submitted URL is stored for that id: a
\* following getInstallation for the id shows that URL and a following
\* /markup for the id finds a URL to fetch. This is to hold in every state
\* the install, settings and uninstall requests lead to, including those
\* with no installation for the id.
C27_SavedMeansStored ==
  \A id \in {Str(i) : i \in Ids}, url \in UrlInputs :
    SettingsAnswer(id, url) = "saved" =>
      LET row == GetInstallation(SettingsTable(installations, id, url), id.s)
      IN /\ row # <<>>
         /\ row[1].posthog_url = Str(Trim(url.s))
         /\ Truthy(row[1].posthog_url)

\* The id and the token a token reply installs, when it installs
InstalledId(reply) ==
  ToStringJS(Or(Get(reply.data, "plugin_setting_id"), Get(reply.data, "id")))

InstalledToken(reply) == ToStringJS(Get(reply.data, "access_token"))

Installs(reply) ==
  /\ reply.ok
  /\ Truthy(Get(reply.data, "access_token"))
  /\ Truthy(Or(Get(reply.data, "plugin_setting_id"), Get(reply.data, "id")))

----------------------------------------------------------------------------
(* Properties of concurrent polls, checked under SpecPolls                 *)

\* What a request produces alone from the URL of the row it read and the
\* reply to its fetch: the fetch, the normalization and the rendering in
\* sequence, with the handler's catch
AloneResponse(url, reply) ==
  LET insight == FetchInsight(url, reply)
  IN IF insight.raised THEN ErrorResponse("Could not load insight: " \o insight.message)
     ELSE LET full == RenderMarkup(insight.rec)
          IN IF full.raised THEN ErrorResponse("Could not load insight: " \o TypeErrorMessage)
             ELSE InsightResponse(full)

\* The handler invocation in slot r answered after its fetch in this step
FinishedIn(r) == reqs[r].pc = "fetching" /\ reqs'[r] # reqs[r]

\* C26: when several /markup requests run concurrently with each other and
\* with /settings and /uninstall requests, interleaving only at the payload
\* fetch, each /markup response equals the response that request would
\* produce alone from the installation row it read before its fetch and the
\* payload its own fetch returned: no response carries another request's
\* title, series or URL, and the normalize-render step of one request is
\* never interleaved with another request (it is one step, which touches no
\* other request and no stored row; a request at its fetch keeps the URL it
\* read whatever the others do).
C26_ConcurrentAsAlone ==
  [][\A r \in DOMAIN reqs :
       /\ FetchAttemptedIn(r) =>
            \E i \in DOMAIN installations :
              /\ Truthy(installations[i].posthog_url)
              /\ reqs'[r].url = installations[i].posthog_url.s
       /\ reqs[r].pc = "fetching" /\ ~FinishedIn(r) => reqs'[r] = reqs[r]
       /\ FinishedIn(r) =>
            /\ reqs'[r] = NewReq
            /\ \A q \in DOMAIN reqs : q # r => reqs'[q] = reqs[q]
            /\ installations' = installations
            /\ \E reply \in FetchReplies :
                 /\ reply.data = sent'.got
                 /\ sent'.response = AloneResponse(reqs[r].url, reply)
                 /\ reply.kind \in {"network", "status"} =>
                      \E i \in DOMAIN sent'.response.markup.frags :
                        EndsWith(sent'.response.markup.frags[i].raw,
                                 " " \o StripSlashes(reqs[r].url)
                                 \o (IF reply.kind = "network" THEN " failed" ELSE ""))]_vars

\* The answer to the request that read the second installation's URL names
\* that URL, although by now no stored row holds it and another request is
\* at its fetch for the first installation's URL.
C26_Witness ==
  /\ \E i \in DOMAIN sent.response.markup.frags :
       sent.response.markup.frags[i].raw =
         "Could not load insight: PostHog returned 404 for https://eu.posthog.com/shared/xyz"
  /\ \A i \in DOMAIN installations : installations[i].posthog_url # Str(PollUrls[2])
  /\ \E r \in DOMAIN reqs : reqs[r].pc = "fetching" /\ reqs[r].url = PollUrls[1]

----------------------------------------------------------------------------
(* Properties of the formatters and the axis scaler, checked under SpecCalc *)

\* text is the number k divided by unit, to the nearest tenth, then the suffix
IsScaled(text, k, unit, suffix) ==
  /\ Len(text) >= 2
  /\ SubSeq(text, Len(text), Len(text)) = suffix
  /\ LET tenths == TenthsOf(SubSeq(text, 1, Len(text) - 1))
         diff   == 10 * k - tenths * unit
     IN tenths >= 0 /\ 2 * diff <= unit /\ -2 * diff <= unit

\* text follows the thresholds: M from a million, K from a thousand, the
\* integer below, and the string form of a value that is not a number
FollowsThresholds(text, v) ==
  LET num == ToNumber(v)
  IN IF num.t = "NaN" THEN text = ToStringJS(v)
     ELSE IF num.n >= 1000000 THEN IsScaled(text, num.n, 1000000, "M")
     ELSE IF num.n >= 1000 THEN IsScaled(text, num.n, 1000, "K")
     ELSE text = ToString(num.n)

\* C13: formatNumber maps 999 to "999", 1000 to "1.0K", 2000 to "2K" and
\* 1500000 to "1.5M"; values from 1,000,000 are divided by 1e6 with suffix M,
\* values from 1,000 by 1e3 with suffix K, smaller values print as the integer
\* string, and a non-numeric input passes through as its string form.
C13_FormatNumberExamples ==
  computed.formatNumber # None =>
    /\ operand = Num(999) => computed.formatNumber = Str("999")
    /\ operand = Num(1000) => computed.formatNumber = Str("1.0K")
    /\ operand = Num(2000) => computed.formatNumber = Str("2K")
    /\ operand = Num(1500000) => computed.formatNumber = Str("1.5M")
    /\ FollowsThresholds(computed.formatNumber.s, operand)

\* text shows a decimal point exactly when the scaled value of v is not an
\* exact integer (values below a thousand are not scaled)
FollowsDecimalPolicy(text, v) ==
  LET num  == ToNumber(v)
      unit == IF num.n >= 1000000 THEN 1000000 ELSE 1000
  IN num.t = "number" /\ num.n >= 1000 =>
       (FindFrom(text, ".", 1) = 0 <=> num.n % unit = 0)

\* C14: formatAxisNum and formatNumber return the same string for every input,
\* with one decimal place unless the scaled value is an exact integer, in
\* which case no decimal point is shown.
C14_SameDecimalPolicy ==
  computed.formatNumber # None /\ computed.formatAxisNum # None =>
    /\ computed.formatNumber = computed.formatAxisNum
    /\ FollowsThresholds(computed.formatNumber.s, operand)
    /\ FollowsDecimalPolicy(computed.formatNumber.s, operand)
    /\ FollowsDecimalPolicy(computed.formatAxisNum.s, operand)

\* Powers of ten from 0.1 up, in thousandths
Magnitudes == {100, 1000, 10000, 100000, 1000000, 10000000, 100000000}

\* The multiples of a magnitude that are nice steps
Ladder(m) == {m, 2 * m, (5 * m) \div 2, 5 * m, 10 * m}

\* t is k * step (in thousandths) rounded to the nearest integer
IsRounded(t, k, step) ==
  LET diff == 1000 * t - k * step
  IN 2 * diff <= 1000 /\ -2 * diff <= 1000

LadderValues == UNION {Ladder(m) : m \in Magnitudes}

\* The ticks are the multiples of step from 0 up to axisMax
TicksByStep(axis, step) ==
  /\ Len(axis.ticks) = (axis.axisMaxMilli \div step) + 1
  /\ \A k \in 1..Len(axis.ticks) : 1000 * axis.ticks[k] = (k - 1) * step

\* C16 as stated: for rawMax = 47 the step is drawn from the nice-step ladder,
\* axisMax >= 47, and axisMax is the smallest value on the ladder that is >= 47.
C16_AxisMaxSmallestOnLadder ==
  computed.niceYAxis # None /\ operand = Num(47) =>
    LET axis == computed.niceYAxis
    IN /\ \E step \in LadderValues : TicksByStep(axis, step)
       /\ axis.axisMaxMilli >= 47000
       /\ axis.axisMaxMilli \in LadderValues
       /\ \A v \in LadderValues : v >= 47000 => axis.axisMaxMilli <= v

\* C16 as amended: for rawMax = 47 the step is 20, drawn from the nice-step
\* ladder, and axisMax is 60: the smallest multiple of that step that is >= 47.
C16_AxisMaxSmallestMultiple ==
  computed.niceYAxis # None /\ operand = Num(47) =>
    LET axis == computed.niceYAxis
    IN \E step \in LadderValues :
         /\ step = 20000
         /\ TicksByStep(axis, step)
         /\ axis.axisMaxMilli = 60000
         /\ axis.axisMaxMilli % step = 0
         /\ axis.axisMaxMilli >= 47000
         /\ axis.axisMaxMilli - step < 47000

\* The axis for rawMax 47: ticks 0, 20, 40, 60.
C16_Witness ==
  /\ operand = Num(47)
  /\ computed.niceYAxis # None
  /\ computed.niceYAxis.ticks = <<0, 20, 40, 60>>

\* C29: for every positive integer rawMax, the ticks returned by niceYAxis
\* are strictly increasing (no two ticks are equal after rounding), so no two
\* y-axis grid lines or tick labels of the line and bar charts are drawn at
\* the same position.
C29_TicksStrictlyIncreasing ==
  computed.niceYAxis # None /\ operand.t = "number" /\ operand.n > 0 =>
    LET ticks == computed.niceYAxis.ticks
    IN \A k \in 1..(Len(ticks) - 1) : ticks[k] < ticks[k + 1]

\* r is i / 5 * (n - 1) rounded to the nearest integer
IsFifthOf(r, i, n) == 2 * (5 * r - i * (n - 1)) <= 5 /\ 2 * (i * (n - 1) - 5 * r) <= 5

\* C24: the x-axis label index selection (evenlySpaced with target 6)
\* returns, for n points, all the indices 0..n-1 when n <= 6, and otherwise a
\* strictly increasing list of at most 6 distinct indices within 0..n-1 that
\* always contains index 0 and index n-1, the others being
\* round(i / 5 * (n - 1)) for i = 1..4.
C24_LabelIndices ==
  computed.evenlySpaced # None =>
    LET n    == operand.n
        idxs == computed.evenlySpaced.idxs
    IN IF n <= 6 THEN idxs = [k \in 1..n |-> k - 1]
       ELSE /\ Len(idxs) <= 6
            /\ \A k \in DOMAIN idxs : idxs[k] \in 0..(n - 1)
            /\ \A k \in 1..(Len(idxs) - 1) : idxs[k] < idxs[k + 1]
            /\ idxs[1] = 0 /\ idxs[Len(idxs)] = n - 1
            /\ \A k \in 2..(Len(idxs) - 1) : \E i \in 1..4 : IsFifthOf(idxs[k], i, n)
            /\ \A i \in 1..4 : \E k \in DOMAIN idxs : IsFifthOf(idxs[k], i, n)

\* 8 points: the labels of the points 0, 1, 3, 4, 6 and 7 are shown
C24_Witness ==
  /\ operand = Num(8)
  /\ computed.evenlySpaced = [idxs |-> <<0, 1, 3, 4, 6, 7>>]

====
